---- MODULE Spec2Model ----
(***************************************************************************)
(* Model of the RF measurement runner: the orchestrator of main.py, the    *)
(* NR5G / LTE / SpurSearch / STN drivers and the iSocket transport.        *)
(*                                                                         *)
(* Units.  Centre frequencies of the NR5G/LTE families are counted in      *)
(* half-millihertz (5e-4 Hz), so the retune tolerance 1e-3 Hz is 2 units.  *)
(* Frequencies of the spur search are counted in MHz, so the exclusion     *)
(* window 10e6 Hz is 10 units.  Elapsed times are positive integers for an *)
(* operation that ran and 0 for the literal 0.0 the code stores.  Noise    *)
(* markers are counted in eighths of a dB, which a float holds exactly,    *)
(* and the numbers of the statistics string, printed with three decimals,  *)
(* in thousandths of a dB.                                                 *)
(*                                                                         *)
(* Python's None is the empty tuple, an object x is the 1-tuple <<x>>.     *)
(* iSocket objects are finalized as CPython does it, as soon as the last   *)
(* reference to them is dropped (iSocket.__del__ closes the socket).       *)
(***************************************************************************)
EXTENDS Integers, Sequences, FiniteSets, TLC

None == <<>>
Some(x) == <<x>>

(***************************************************************************)
(* Bounds of the model.                                                    *)
(***************************************************************************)
MaxTests == 2      \* test definitions taken from the test matrix in one run
MaxSets == 3       \* test sets after which no further frequency is taken
MaxPeaks == 3      \* entries in one analyzer peak-list response

(***************************************************************************)
(* Program constants.                                                      *)
(***************************************************************************)
FreqTolerance == 2         \* 1e-3 Hz, in half-millihertz
ExclusionWindow == 10      \* 10e6 Hz, in MHz
AclrFields == 5            \* len(aclr_parts) == 5
MinStatSamples == 2        \* len(valid_markers) >= 2
SkippedTime == 0           \* timings[...] = 0.0
ReadTimeout == 30          \* sock.settimeout(30)

Families == {"NR5G", "LTE"}
Durations == {1}

VARIABLES
    pc,               \* <<family, place>>: position of the orchestrator
    ntests,           \* test definitions taken so far
    test,             \* the test definition being processed (None between tests)
    todo,             \* the test sets of its current frequency still to run
    test_set,         \* main.py: test_set counter
    results,          \* main.py: results list
    previous_config,  \* main.py: previous_config (None or a dict)
    previous_freq,    \* main.py: previous_freq (None or a frequency)
    instr,            \* main.py: instr (None or the NR5G/LTE driver object)
    spur_instr,       \* main.py: spur_instr
    stn_instr,        \* main.py: stn_instr
    vsa_instance,     \* std_insr_driver._vsa_instance, per driver class
    vsg_instance,     \* std_insr_driver._vsg_instance, per driver class
    socks,            \* the live iSocket objects: id |-> [role, state]
    attempted,        \* test_set numbers whose processing has been started
    closed,           \* what the finally clause that has just run did with the connections
    lastRun,          \* what the last run_*_measurement call of the current try block did
    lastInit,         \* what the std_insr_driver construction of the current try block did
    gr                \* one call of a function studied on its own: its input and output

vars == <<pc, ntests, test, todo, test_set, results, previous_config, previous_freq,
          instr, spur_instr, stn_instr, vsa_instance, vsg_instance, socks,
          attempted, closed, lastRun, lastInit, gr>>

(***************************************************************************)
(* File names.  A name is the tuple of the fields of the grammar           *)
(*   <STD>_<UL|DL>_<N>MHz_<MOD>_<N>kHz_<N>RB_<N>RBO.<ext>                  *)
(* and None stands for a missing (or empty) name.                          *)
(***************************************************************************)
FileName(std, ldir, bw, mod, scs, rb, rbo, ext) ==
    <<std, ldir, bw, mod, scs, rb, rbo, ext>>

Modulations(fam) ==
    IF fam = "NR5G" THEN {"QPSK", "16QAM", "64QAM", "256QAM", "1024QAM"}
                    ELSE {"QPSK", "QAM16", "QAM64", "QAM256"}

StdToken(fam) == IF fam = "NR5G" THEN "5GNR" ELSE "LTE"

\* re.match(pattern, file_name) of _validate_file_names
matches_pattern(fam, f, ext) ==
    /\ Len(f) = 8
    /\ f[1] = StdToken(fam)
    /\ f[2] \in {"UL", "DL"}
    /\ f[3] \in Nat
    /\ f[4] \in Modulations(fam)
    /\ f[5] \in Nat
    /\ f[6] \in Nat
    /\ f[7] \in Nat
    /\ f[8] = ext

\* _validate_file_names looking at the waveform file only
validate_waveform_only(fam, waveform_file, setup_file) ==
    waveform_file # None => matches_pattern(fam, waveform_file, "wv")

\* _validate_file_names: TRUE when it returns, FALSE when it raises ValueError
validate_file_names(fam, waveform_file, setup_file) ==
    /\ waveform_file # None => matches_pattern(fam, waveform_file, "wv")
    /\ setup_file # None => matches_pattern(fam, setup_file, "dfl")

NrWvA  == FileName("5GNR", "UL", 10, "256QAM", 30, 24, 0, "wv")
NrWvB  == FileName("5GNR", "DL", 20, "64QAM", 30, 51, 0, "wv")
NrDflA == FileName("5GNR", "UL", 10, "256QAM", 30, 24, 0, "dfl")
NrDflB == FileName("5GNR", "DL", 20, "64QAM", 30, 51, 0, "dfl")
LteWvA  == FileName("LTE", "UL", 5, "QPSK", 15, 25, 0, "wv")
LteWvB  == FileName("LTE", "DL", 20, "QAM64", 15, 100, 0, "wv")
LteDflA == FileName("LTE", "UL", 5, "QPSK", 15, 25, 0, "dfl")
LteDflB == FileName("LTE", "DL", 20, "QAM64", 15, 100, 0, "dfl")
BadName == FileName("WLAN", "UL", 20, "QPSK", 15, 25, 0, "wv")

WaveformFiles(fam) ==
    IF fam = "NR5G" THEN {None, NrWvA, NrWvB, BadName}
                    ELSE {None, LteWvA, LteWvB, BadName}
SetupFiles(fam) ==
    IF fam = "NR5G" THEN {None, NrDflA, NrDflB, BadName}
                    ELSE {None, LteDflA, LteDflB, BadName}

(***************************************************************************)
(* Sockets.                                                                *)
(***************************************************************************)
OpenOutcomes == {"ok", "refused", "idn_fail"}

\* a fresh object identity: the least id no live session carries
new_id(S) == CHOOSE n \in 1..(Cardinality(DOMAIN S) + 1) : n \notin DOMAIN S

\* bench().VSA_start() / bench().VSG_start(): iSocket().open(ip, 5025).
\* "refused": connect raises.  "idn_fail": connected, the *IDN? query raises,
\* and the iSocket object, which nobody references, is finalized at once.
bench_start(S, role, o) ==
    IF o = "ok"
    THEN [raised |-> FALSE, sock |-> Some(new_id(S)),
          socks |-> (new_id(S) :> [role |-> role, state |-> "open"]) @@ S]
    ELSE [raised |-> TRUE, sock |-> None, socks |-> S]

\* sock.close() on the socket behind session s (a 1-tuple): the descriptor is
\* released whether or not close() raises.
sock_close(S, s) == [S EXCEPT ![s[1]].state = "closed"]

\* iSocket.__del__ of the sessions ids, which nothing references any more:
\* an open socket is closed, and the objects are gone
finalize(S, ids) == [i \in (DOMAIN S) \ ids |-> S[i]]

OpenSocks(role) == {i \in DOMAIN socks : socks[i].role = role /\ socks[i].state = "open"}

(***************************************************************************)
(* std_insr_driver (nr5g_fr1.py; lte.py is structurally the same class     *)
(* with its own class attributes).                                         *)
(***************************************************************************)
StartOutcomes == OpenOutcomes \cup {"query_fail"}

\* connect_slot without the "is None" test: a connection per construction
connect_slot_always(S, role, slot, o) ==
    LET r == bench_start(S, role, IF o = "query_fail" THEN "ok" ELSE o) IN
    IF r.raised
    THEN [raised |-> TRUE, slot |-> slot, socks |-> r.socks]
    ELSE [raised |-> (o = "query_fail"), slot |-> r.sock, socks |-> r.socks]

\* One registry slot of std_insr_driver.__init__: connect only when the class
\* attribute is None; "query_fail" is the '*IDN?' query raising after the
\* attribute has been assigned.
connect_slot(S, role, slot, o) ==
    IF slot # None
    THEN [raised |-> FALSE, slot |-> slot, socks |-> S]
    ELSE LET r == bench_start(S, role, IF o = "query_fail" THEN "ok" ELSE o) IN
         IF r.raised
         THEN [raised |-> TRUE, slot |-> None, socks |-> r.socks]
         ELSE [raised |-> (o = "query_fail"), slot |-> r.sock, socks |-> r.socks]

\* std_insr_driver.__init__ validating the file names after it has connected
std_insr_driver_init_connect_first(fam, t, S, vsa, vsg, oa, og) ==
    LET a == connect_slot(S, "VSA", vsa, oa) IN
    IF a.raised
    THEN [raised |-> TRUE, socks |-> a.socks, vsa |-> a.slot, vsg |-> vsg,
          drv |-> None]
    ELSE LET g == connect_slot(a.socks, "VSG", vsg, og) IN
         IF g.raised \/ ~validate_file_names(fam, t.waveform_file, t.setup_file)
         THEN [raised |-> TRUE, socks |-> g.socks, vsa |-> a.slot,
               vsg |-> g.slot, drv |-> None]
         ELSE [raised |-> FALSE, socks |-> g.socks, vsa |-> a.slot,
               vsg |-> g.slot,
               drv |-> Some([fam |-> fam, VSA |-> a.slot[1], VSG |-> g.slot[1],
                             freq |-> t.center_frequency_ghz[1],
                             pwr |-> t.power_dbm[1],
                             waveform_file |-> t.waveform_file,
                             setup_file |-> t.setup_file])]

\* std_insr_driver.__init__(freq, pwr, waveform_file, setup_file)
std_insr_driver_init(fam, t, S, vsa, vsg, oa, og) ==
    IF ~validate_file_names(fam, t.waveform_file, t.setup_file)
    THEN [raised |-> TRUE, socks |-> S, vsa |-> vsa, vsg |-> vsg, drv |-> None]
    ELSE LET a == connect_slot(S, "VSA", vsa, oa) IN
         IF a.raised
         THEN [raised |-> TRUE, socks |-> a.socks, vsa |-> a.slot, vsg |-> vsg,
               drv |-> None]
         ELSE LET g == connect_slot(a.socks, "VSG", vsg, og) IN
              IF g.raised
              THEN [raised |-> TRUE, socks |-> g.socks, vsa |-> a.slot,
                    vsg |-> g.slot, drv |-> None]
              ELSE [raised |-> FALSE, socks |-> g.socks, vsa |-> a.slot,
                    vsg |-> g.slot,
                    drv |-> Some([fam |-> fam, VSA |-> a.slot[1], VSG |-> g.slot[1],
                                  freq |-> t.center_frequency_ghz[1],
                                  pwr |-> t.power_dbm[1],
                                  waveform_file |-> t.waveform_file,
                                  setup_file |-> t.setup_file])]

CloseOutcomes == {"ok", "vsa_raise", "vsg_raise"}

\* std_insr_driver.close_connections(): oc names the sock.close() that raises
close_connections(S, vsa, vsg, oc) ==
    LET S1 == IF vsa # None THEN sock_close(S, vsa) ELSE S IN
    IF vsa # None /\ oc = "vsa_raise"
    THEN [raised |-> TRUE, socks |-> S1, vsa |-> vsa, vsg |-> vsg]
    ELSE LET S2 == IF vsg # None THEN sock_close(S1, vsg) ELSE S1 IN
         IF vsg # None /\ oc = "vsg_raise"
         THEN [raised |-> TRUE, socks |-> S2, vsa |-> None, vsg |-> vsg]
         ELSE [raised |-> FALSE, socks |-> S2, vsa |-> None, vsg |-> None]

(***************************************************************************)
(* Instrument read-backs.  A response is [fail, toks]: fail when the       *)
(* query raises (timeout, broken connection), else the comma-separated     *)
(* fields of the response line; a field is [kind, val]: "num" when float() *)
(* accepts it, "blank" when it is empty or white space, else "bad".        *)
(***************************************************************************)
Num(v) == [kind |-> "num", val |-> v]
BadTok == [kind |-> "bad", val |-> 0]
Blank == [kind |-> "blank", val |-> 0]
Reply(toks) == [fail |-> FALSE, toks |-> toks]
Timeout == [fail |-> TRUE, toks |-> <<>>]
NaN == [nan |-> TRUE, val |-> 0]
Float(v) == [nan |-> FALSE, val |-> v]

EvmReadbacks == {Reply(<<Num(-40)>>), Reply(<<BadTok>>), Timeout}
AclrReadbacks ==
    {Reply(<<Num(-10), Num(-45), Num(-46), Num(-60), Num(-61)>>),
     Reply(<<Num(-10), Num(-45), BadTok, Num(-60), Num(-61)>>),
     Reply(<<Num(-10), Num(-45), Num(-46), Num(-60)>>),
     Reply(<<>>),
     Timeout}

\* std_insr_driver.VSA_get_EVM: every failure inside it yields NaN
VSA_get_EVM(resp) ==
    IF resp.fail \/ resp.toks[1].kind # "num" THEN NaN ELSE Float(resp.toks[1].val)

\* std_insr_driver.VSA_get_ACLR: the stripped response, '' on any failure
VSA_get_ACLR(resp) == IF resp.fail THEN <<>> ELSE resp.toks

(***************************************************************************)
(* run_nr5g_measurement / run_lte_measurement.  The body runs on a context *)
(* c that carries the globals it assigns, the timings dict, and the calls  *)
(* made; once c.raised is set the rest of the try block is skipped.        *)
(***************************************************************************)
Abs(x) == IF x < 0 THEN -x ELSE x

tset(c, k, v) == [c EXCEPT !.timings = (k :> v) @@ @, !.tlog = Append(@, k)]
call(c, op) == [c EXCEPT !.ops = Append(@, op)]
raise(c) == [c EXCEPT !.raised = TRUE]
called(c, op) == \E i \in 1..Len(c.ops) : c.ops[i] = op

\* should_reconfigure comparing the waveform file only
should_reconfigure_waveform_only(prev, cur) ==
    prev = None \/ prev[1].waveform_file # cur.waveform_file

\* should_retune with the tolerance boundary included
should_retune_inclusive(prev, freq) ==
    prev = None \/ Abs(prev[1] - freq) >= FreqTolerance

\* main.py line 64 / 153: previous_config != current_config
should_reconfigure(prev, cur) == prev # Some(cur)

\* main.py line 74 / 163: previous_freq is None or abs(previous_freq - freq) > 1e-3
should_retune(prev, freq) == prev = None \/ Abs(prev[1] - freq) > FreqTolerance

\* reconfigure recording the configuration before the instruments are set up
reconfigure_tracker_first(c, drv, cur, freq, fault, dt) ==
    IF should_reconfigure(c.previous_config, cur)
    THEN LET c0 == [c EXCEPT !.previous_config = Some(cur),
                             !.previous_freq = Some(freq)]
             c1 == call(c0, "VSG_Config") IN
         IF fault = "VSG_Config" \/ drv.waveform_file = None
         THEN raise(c1)
         ELSE LET c2 == call(tset(c1, "VSG_Config", dt), "VSA_Config") IN
              IF fault = "VSA_Config" \/ freq <= 0 \/ drv.setup_file = None
              THEN raise(c2)
              ELSE tset(c2, "VSA_Config", dt)
    ELSE c

\* main.py lines 64-71 (153-160)
reconfigure(c, drv, cur, freq, fault, dt) ==
    IF should_reconfigure(c.previous_config, cur)
    THEN LET c1 == call(c, "VSG_Config") IN
         IF fault = "VSG_Config" \/ drv.waveform_file = None
         THEN raise(c1)
         ELSE LET c2 == call(tset(c1, "VSG_Config", dt), "VSA_Config") IN
              IF fault = "VSA_Config" \/ freq <= 0 \/ drv.setup_file = None
              THEN raise(c2)
              ELSE [tset(c2, "VSA_Config", dt) EXCEPT
                        !.previous_config = Some(cur),
                        !.previous_freq = Some(freq)]
    ELSE c

\* main.py lines 73-80 (162-169)
retune(c, freq, fault, dt) ==
    IF c.raised THEN c
    ELSE LET c0 == [c EXCEPT !.checked = Some(c.previous_freq)] IN
         IF should_retune(c.previous_freq, freq)
         THEN LET c1 == call(c0, "VSx_freq") IN
              IF fault = "VSx_freq" \/ freq <= 0
              THEN raise(c1)
              ELSE [tset(c1, "VSx_freq", dt) EXCEPT
                        !.previous_freq = Some(freq), !.freq = freq]
         ELSE tset(c0, "VSx_freq", SkippedTime)

\* measure_evm with an EVM read-back failure propagating to the caller
measure_evm_propagating(c, pwr, fault, evm, dt) ==
    IF c.raised THEN c
    ELSE LET c1 == call(c, "VSG_pwr") IN
         IF fault = "VSG_pwr"
         THEN raise(c1)
         ELSE LET c2 == tset(call([c1 EXCEPT !.pwr = pwr], "VSA_get_info"),
                             "VSA_get_info", dt)
                  c3 == tset(call(c2, "VSA_sweep"), "VSA_sweep_evm", dt)
                  c4 == call(c3, "VSA_get_EVM")
              IN IF VSA_get_EVM(evm) = NaN THEN raise(c4)
                 ELSE [tset(c4, "VSA_get_EVM", dt) EXCEPT !.evm = VSA_get_EVM(evm)]

\* main.py lines 82-97 (171-186)
measure_evm(c, pwr, fault, evm, dt) ==
    IF c.raised THEN c
    ELSE LET c1 == call(c, "VSG_pwr") IN
         IF fault = "VSG_pwr"
         THEN raise(c1)
         ELSE LET c2 == tset(call([c1 EXCEPT !.pwr = pwr], "VSA_get_info"),
                             "VSA_get_info", dt)
                  c3 == tset(call(c2, "VSA_sweep"), "VSA_sweep_evm", dt)
                  c4 == tset(call(c3, "VSA_get_EVM"), "VSA_get_EVM", dt)
              IN [c4 EXCEPT !.evm = VSA_get_EVM(evm)]

\* measure_aclr without the default entry of line 100: the key is written
\* by the measurement alone
measure_aclr_no_default(c, enabled, aclr, dt) ==
    IF c.raised THEN c
    ELSE IF ~enabled THEN tset(c, "VSA_get_ACLR", SkippedTime)
         ELSE LET c2 == tset(call(c, "VSA_get_ACLR"), "VSA_get_ACLR", dt)
                  aclr_parts == VSA_get_ACLR(aclr)
              IN IF aclr_parts # <<>> /\ Len(aclr_parts) = AclrFields
                 THEN IF \A i \in 1..Len(aclr_parts) : aclr_parts[i].kind = "num"
                      THEN [c2 EXCEPT !.aclr =
                               Some([i \in 1..AclrFields |-> aclr_parts[i].val])]
                      ELSE raise(c2)
                 ELSE c2

\* main.py lines 99-107 (188-196)
measure_aclr(c, enabled, aclr, dt) ==
    IF c.raised THEN c
    ELSE LET c1 == tset(c, "VSA_get_ACLR", SkippedTime) IN
         IF ~enabled THEN c1
         ELSE LET c2 == tset(call(c1, "VSA_get_ACLR"), "VSA_get_ACLR", dt)
                  aclr_parts == VSA_get_ACLR(aclr)
              IN IF aclr_parts # <<>> /\ Len(aclr_parts) = AclrFields
                 THEN IF \A i \in 1..Len(aclr_parts) : aclr_parts[i].kind = "num"
                      THEN [c2 EXCEPT !.aclr =
                               Some([i \in 1..AclrFields |-> aclr_parts[i].val])]
                      ELSE raise(c2)
                 ELSE c2

StdType(fam) == fam

\* the context at the head of the try block (main.py lines 49-62 / 138-151)
entry_context(drv, pcfg, pfreq) ==
    [raised |-> FALSE, previous_config |-> pcfg, previous_freq |-> pfreq,
     timings |-> <<>>, tlog |-> <<>>, ops |-> <<>>, checked |-> None,
     freq |-> drv.freq, pwr |-> drv.pwr, evm |-> NaN, aclr |-> None]

current_config(t) == [waveform_file |-> t.waveform_file, setup_file |-> t.setup_file]

\* main.py lines 108-130 (197-219): the dict appended to results
std_record(fam, t, ts, freq, pwr, c) ==
    [test_set |-> ts, type |-> StdType(fam),
     center_frequency_hz |-> freq, power_dbm |-> pwr,
     waveform_file |-> t.waveform_file, setup_file |-> t.setup_file,
     evm |-> c.evm, aclr |-> c.aclr, timings |-> c.timings, error |-> None]

\* what the results list keeps of an appended dict in this model
entry(rec) == [test_set |-> rec.test_set, type |-> rec.type, error |-> rec.error # None]

(***************************************************************************)
(* What the driver calls of a test set command to the instruments: the     *)
(* analyzer's centre frequency, the generator's CW frequency and output    *)
(* power.  A setting is None until a command has set it, and it outlives   *)
(* the session that set it.  evm and aclr hold the settings in force when  *)
(* the last test set measured EVM and ACLR (None when it did not).  A call *)
(* that raised has sent none, some or all of its commands.                 *)
(***************************************************************************)
NoBench == [vsa_cent |-> None, vsg_cw |-> None, vsg_pow |-> None,
            evm |-> None, aclr |-> None]

settings(g) == [vsa_cent |-> g.vsa_cent, vsg_cw |-> g.vsg_cw, vsg_pow |-> g.vsg_pow]

\* bench_effect without the power command of VSG_pwr
bench_effect_no_pwr(g, op, self_freq, self_pwr, freq, pwr) ==
    CASE op = "VSG_Config" -> [g EXCEPT !.vsg_cw = Some(self_freq),
                                        !.vsg_pow = Some(self_pwr)]
      [] op = "VSA_Config" -> [g EXCEPT !.vsa_cent = Some(freq)]
      [] op = "VSx_freq" -> [g EXCEPT !.vsa_cent = Some(freq), !.vsg_cw = Some(freq)]
      [] op = "VSA_get_EVM" -> [g EXCEPT !.evm = Some(settings(g))]
      [] op = "VSA_get_ACLR" ->
             LET g1 == [g EXCEPT !.vsa_cent = Some(self_freq)]
             IN [g1 EXCEPT !.aclr = Some(settings(g1))]
      [] OTHER -> g

\* the settings after a driver call that returned.  nr5g_fr1.py: VSG_Config
\* lines 135, 139 (self.freq, self.pwr), VSA_Config line 172, VSx_freq lines
\* 190-191, VSG_pwr line 149, VSA_get_ACLR line 274 (self.freq)
bench_effect(g, op, self_freq, self_pwr, freq, pwr) ==
    CASE op = "VSG_Config" -> [g EXCEPT !.vsg_cw = Some(self_freq),
                                        !.vsg_pow = Some(self_pwr)]
      [] op = "VSA_Config" -> [g EXCEPT !.vsa_cent = Some(freq)]
      [] op = "VSx_freq" -> [g EXCEPT !.vsa_cent = Some(freq), !.vsg_cw = Some(freq)]
      [] op = "VSG_pwr" -> [g EXCEPT !.vsg_pow = Some(pwr)]
      [] op = "VSA_get_EVM" -> [g EXCEPT !.evm = Some(settings(g))]
      [] op = "VSA_get_ACLR" ->
             LET g1 == [g EXCEPT !.vsa_cent = Some(self_freq)]
             IN [g1 EXCEPT !.aclr = Some(settings(g1))]
      [] OTHER -> g

\* the settings a driver call can leave when it raises
bench_partial(g, op, self_freq, self_pwr, freq) ==
    CASE op = "VSG_Config" ->
             {g, [g EXCEPT !.vsg_cw = Some(self_freq)],
              [g EXCEPT !.vsg_cw = Some(self_freq), !.vsg_pow = Some(self_pwr)]}
      [] op = "VSA_Config" -> {g, [g EXCEPT !.vsa_cent = Some(freq)]}
      [] op = "VSx_freq" ->
             {g, [g EXCEPT !.vsa_cent = Some(freq)],
              [g EXCEPT !.vsa_cent = Some(freq), !.vsg_cw = Some(freq)]}
      [] OTHER -> {g}

\* self.freq when the i-th call of the test set is made: VSx_freq assigns it
self_freq_at(ops, i, drv, freq) ==
    IF \E j \in 1..(i - 1) : ops[j] = "VSx_freq" THEN freq ELSE drv.freq

\* self.pwr when the i-th call is made: VSG_pwr assigns it
self_pwr_at(ops, i, drv, pwr) ==
    IF \E j \in 1..(i - 1) : ops[j] = "VSG_pwr" THEN pwr ELSE drv.pwr

RECURSIVE bench_after(_, _, _, _, _, _)
bench_after(g, ops, n, drv, freq, pwr) ==
    IF n = 0 THEN g
    ELSE bench_effect(bench_after(g, ops, n - 1, drv, freq, pwr), ops[n],
                      self_freq_at(ops, n, drv, freq), self_pwr_at(ops, n, drv, pwr),
                      freq, pwr)

\* the settings the calls c.ops of a test set can leave, from the settings g
commanded(g, drv, c, freq, pwr) ==
    LET g0 == [g EXCEPT !.evm = None, !.aclr = None]
        n == Len(c.ops)
    IN IF c.raised /\ n > 0
          /\ c.ops[n] \in {"VSG_Config", "VSA_Config", "VSx_freq", "VSG_pwr"}
       THEN bench_partial(bench_after(g0, c.ops, n - 1, drv, freq, pwr), c.ops[n],
                          self_freq_at(c.ops, n, drv, freq),
                          self_pwr_at(c.ops, n, drv, pwr), freq)
       ELSE {bench_after(g0, c.ops, n, drv, freq, pwr)}

(***************************************************************************)
(* The orchestrator (main.py, __main__).  A test definition of the test    *)
(* matrix is an input: its file names, flags and power list are read when  *)
(* the definition is taken, its frequency list one element at a time.      *)
(***************************************************************************)
StdTests(fam, W, S, M, F, P) ==
    {[family |-> fam, waveform_file |-> w, setup_file |-> s, measure_aclr |-> m,
      frequencies |-> F, center_frequency_ghz |-> <<>>, power_dbm |-> p] :
        w \in W, s \in S, m \in M, p \in P}

Frequencies == {100, 101, 102, 104}

NoRun == [test_set |-> 0, type |-> "", raised |-> FALSE, ops |-> <<>>, tlog |-> <<>>,
          timings |-> <<>>, entry_config |-> None, cfg |-> None, checked |-> None,
          freq |-> 0, pwr |-> 0, evm_in |-> None, aclr_in |-> None,
          sweeps |-> <<>>, appended |-> <<>>]
NoInit == [family |-> "", raised |-> FALSE, vsa_before |-> None, vsg_before |-> None,
           opened |-> {}]
NoClose == [family |-> "", raised |-> FALSE]
NoCall == [state |-> "idle", fundamental |-> 0, count |-> Timeout, x |-> Timeout,
           y |-> Timeout, out |-> <<>>]

Init ==
    /\ pc = <<"NR5G", "loop">>
    /\ ntests = 0
    /\ test = None
    /\ todo = <<>>
    /\ test_set = 1
    /\ results = <<>>
    /\ previous_config = None
    /\ previous_freq = None
    /\ instr = None
    /\ spur_instr = None
    /\ stn_instr = None
    /\ vsa_instance = [f \in Families |-> None]
    /\ vsg_instance = [f \in Families |-> None]
    /\ socks = <<>>
    /\ attempted = {}
    /\ closed = NoClose
    /\ lastRun = NoRun
    /\ lastInit = NoInit
    /\ gr = NoCall

\* for test in inputs.get(<family>, []): if test.get("run", False): ...
TakeTest(fam, tests) ==
    /\ pc = <<fam, "loop">>
    /\ ntests < MaxTests
    /\ \E t \in tests : test' = Some(t)
    /\ ntests' = ntests + 1
    /\ pc' = <<fam, "init">>
    /\ closed' = NoClose
    /\ UNCHANGED <<todo, test_set, results, previous_config, previous_freq, instr,
                   spur_instr, stn_instr, vsa_instance, vsg_instance, socks,
                   attempted, lastRun, lastInit, gr>>

\* the for loop of a family is exhausted
EndLoop(fam, next) ==
    /\ pc = <<fam, "loop">>
    /\ pc' = next
    /\ closed' = NoClose
    /\ UNCHANGED <<ntests, test, todo, test_set, results, previous_config,
                   previous_freq, instr, spur_instr, stn_instr, vsa_instance,
                   vsg_instance, socks, attempted, lastRun, lastInit, gr>>

\* a counter that is not advanced
next_test_set_stuck(ts) == ts

\* a counter advanced twice for one test set
next_test_set_twice(ts) == ts + 1 + 1

\* test_set += 1 (and return test_set + 1 of run_spur_search_measurement)
next_test_set(ts) == ts + 1

PowerSets(f, ps) == [k \in 1..Len(ps) |-> <<f, ps[k]>>]

\* main.py lines 408-414 (439-445): instr = NR5GDriver(freq=frequencies[0] * 1e9, ...)
\* and, when it raises, the except clause of line 423 (454)
Construct(fam, Starts) ==
    /\ pc = <<fam, "init">>
    /\ \E f0 \in test[1].frequencies, oa \in Starts, og \in Starts :
       \E t \in {[test[1] EXCEPT !.center_frequency_ghz = <<f0>>]} :
       \E r \in {std_insr_driver_init(fam, t, socks, vsa_instance[fam],
                                      vsg_instance[fam], oa, og)} :
            /\ socks' = r.socks
            /\ vsa_instance' = [vsa_instance EXCEPT ![fam] = r.vsa]
            /\ vsg_instance' = [vsg_instance EXCEPT ![fam] = r.vsg]
            /\ lastInit' = [family |-> fam, raised |-> r.raised,
                            vsa_before |-> vsa_instance[fam],
                            vsg_before |-> vsg_instance[fam],
                            opened |-> (DOMAIN r.socks) \ (DOMAIN socks)]
            /\ test' = test
            /\ IF r.raised
               THEN /\ instr' = instr
                    /\ todo' = <<>>
                    /\ pc' = <<fam, "finally">>
               ELSE /\ instr' = r.drv
                    /\ todo' = PowerSets(f0, t.power_dbm)
                    /\ pc' = <<fam, "run">>
    /\ UNCHANGED <<ntests, test_set, results, previous_config, previous_freq,
                   spur_instr, stn_instr, attempted, closed, lastRun, gr>>

StdFaults == {"none", "VSG_Config", "VSA_Config", "VSx_freq", "VSG_pwr"}

\* a handler that lets the exception of its try block through to the loop
handler_raises_through(raised) == raised

\* whether run_nr5g_measurement (run_lte_measurement) raises into the loop
\* that called it when its try block has raised: the except clause of lines
\* 131-132 (220-221) logs and returns
handler_raises(raised) == FALSE

\* main.py lines 415-422 (446-453): one pass of the inner loop,
\* run_nr5g_measurement(test_config, test_set, instr); test_set += 1.
\* With bench set, gr holds the settings of the instruments and follows the
\* commands of the test set.
RunSet(fam, Faults, Evms, Aclrs, bench) ==
    /\ pc = <<fam, "run">>
    /\ todo # <<>>
    /\ \E fault \in Faults, evm \in Evms, aclr \in Aclrs, dt \in Durations :
       \E t \in {test[1]}, freq \in {Head(todo)[1]}, pwr \in {Head(todo)[2]} :
       \E c1 \in {reconfigure(entry_context(instr[1], previous_config, previous_freq),
                              instr[1], current_config(t), freq, fault, dt)} :
       \E c2 \in {retune(c1, freq, fault, dt)} :
       \E c3 \in {measure_evm(c2, pwr, fault, evm, dt)} :
       \E c \in {measure_aclr(c3, t.measure_aclr, aclr, dt)} :
       \E rec \in {IF c.raised THEN <<>>
                   ELSE <<std_record(fam, t, test_set, freq, pwr, c)>>} :
            /\ previous_config' = c.previous_config
            /\ previous_freq' = c.previous_freq
            /\ instr' = Some([instr[1] EXCEPT !.freq = c.freq, !.pwr = c.pwr])
            /\ gr' \in IF bench
                       THEN commanded(gr, instr[1], c, freq, pwr)
                       ELSE {gr}
            /\ results' = results \o [i \in 1..Len(rec) |-> entry(rec[i])]
            /\ lastRun' = [test_set |-> test_set, type |-> StdType(fam),
                           raised |-> c.raised, ops |-> c.ops, tlog |-> c.tlog,
                           timings |-> c.timings,
                           entry_config |-> previous_config,
                           cfg |-> Some(current_config(t)),
                           checked |-> c.checked, freq |-> freq, pwr |-> pwr,
                           evm_in |-> IF called(c, "VSA_get_EVM")
                                      THEN Some(evm) ELSE None,
                           aclr_in |-> IF called(c, "VSA_get_ACLR")
                                       THEN Some(aclr) ELSE None,
                           sweeps |-> <<>>, appended |-> rec]
    /\ attempted' = attempted \cup {test_set}
    /\ test_set' = next_test_set(test_set)
    /\ \/ /\ ~handler_raises(lastRun'.raised)
          /\ Tail(todo) # <<>>
          /\ todo' = Tail(todo)
          /\ UNCHANGED <<pc, test>>
       \/ /\ ~handler_raises(lastRun'.raised)
          /\ Tail(todo) = <<>>
          /\ test_set < MaxSets
          /\ \E f \in test[1].frequencies : todo' = PowerSets(f, test[1].power_dbm)
          /\ UNCHANGED <<pc, test>>
       \/ /\ Tail(todo) = <<>> \/ handler_raises(lastRun'.raised)
          /\ todo' = <<>>
          /\ pc' = <<fam, "finally">>
          /\ UNCHANGED test
    /\ UNCHANGED <<ntests, spur_instr, stn_instr, vsa_instance, vsg_instance, socks,
                   closed, lastInit>>

RunStd(fam, Faults, Evms, Aclrs) == RunSet(fam, Faults, Evms, Aclrs, FALSE)

\* main.py lines 425-431 (456-462): the finally clause
Finally(fam, Closes) ==
    /\ pc = <<fam, "finally">>
    /\ IF instr # None
       THEN \E oc \in Closes :
            \E r \in {close_connections(socks, vsa_instance[fam],
                                        vsg_instance[fam], oc)} :
                 /\ socks' = finalize(r.socks,
                                      {instr[1].VSA, instr[1].VSG}
                                          \ {x[1] : x \in {r.vsa, r.vsg} \ {None}})
                 /\ vsa_instance' = [vsa_instance EXCEPT ![fam] = r.vsa]
                 /\ vsg_instance' = [vsg_instance EXCEPT ![fam] = r.vsg]
                 /\ closed' = [family |-> fam, raised |-> r.raised]
       ELSE /\ closed' = NoClose
            /\ UNCHANGED <<socks, vsa_instance, vsg_instance>>
    /\ instr' = None
    /\ test' = None
    /\ pc' = <<fam, "loop">>
    /\ lastRun' = NoRun
    /\ lastInit' = NoInit
    /\ UNCHANGED <<ntests, todo, test_set, results, previous_config, previous_freq,
                   spur_instr, stn_instr, attempted, gr>>

NR5GTest == TakeTest("NR5G", StdTests("NR5G", {NrWvA, BadName}, {NrDflA}, BOOLEAN,
                                      {100}, {<<-10>>}))
NR5GDriver == Construct("NR5G", StartOutcomes)
run_nr5g_measurement == RunStd("NR5G", StdFaults, EvmReadbacks, AclrReadbacks)
NR5GFinally == Finally("NR5G", CloseOutcomes)
NR5GEnd == EndLoop("NR5G", <<"LTE", "loop">>)

LTETest == TakeTest("LTE", StdTests("LTE", {LteWvA, BadName}, {LteDflA}, BOOLEAN,
                                    {100}, {<<-10>>}))
LTEDriver == Construct("LTE", StartOutcomes)
run_lte_measurement == RunStd("LTE", StdFaults, EvmReadbacks, AclrReadbacks)
LTEFinally == Finally("LTE", CloseOutcomes)
LTEEnd == EndLoop("LTE", <<"SpurSearch", "loop">>)

(***************************************************************************)
(* SpurSearch (spur_search.py).                                            *)
(***************************************************************************)
\* SpurSearch.__init__: VSA_start, settimeout, VSG_start, settimeout.  When the
\* VSG cannot be started the half-built object is dropped and its VSA session
\* finalized.
SpurSearch_init(S, fundamental_ghz, oa, og) ==
    LET a == bench_start(S, "VSA", oa) IN
    IF a.raised
    THEN [raised |-> TRUE, socks |-> a.socks, obj |-> None]
    ELSE LET g == bench_start(a.socks, "VSG", og) IN
         IF g.raised
         THEN [raised |-> TRUE, socks |-> finalize(g.socks, {a.sock[1]}), obj |-> None]
         ELSE [raised |-> FALSE, socks |-> g.socks,
               obj |-> Some([VSA |-> a.sock[1], VSG |-> g.sock[1],
                             fundamental_ghz |-> fundamental_ghz])]

SpurCloseFaults == {"none", "vsa_close", "vsg_write", "vsg_close"}

\* SpurSearch.close(): every exception is logged and swallowed
SpurSearch_close(S, obj, fault) ==
    LET S1 == sock_close(S, Some(obj.VSA)) IN
    IF fault \in {"vsa_close", "vsg_write"} THEN S1
    ELSE sock_close(S1, Some(obj.VSG))

nonblank(toks) == SelectSeq(toks, LAMBDA t : t.kind # "blank")
all_num(toks) == \A i \in 1..Len(toks) : toks[i].kind = "num"

\* filter_spurs keeping a peak that lies exactly on the edge of the window
filter_spurs_inclusive(fundamental, freqs, powers) ==
    SelectSeq([i \in 1..Len(freqs) |-> <<freqs[i].val, powers[i].val>>],
              LAMBDA p : Abs(p[1] - fundamental) >= ExclusionWindow)

\* lines 194-203: the pairs outside the exclusion window, in instrument order
filter_spurs(fundamental, freqs, powers) ==
    SelectSeq([i \in 1..Len(freqs) |-> <<freqs[i].val, powers[i].val>>],
              LAMBDA p : Abs(p[1] - fundamental) > ExclusionWindow)

\* get_results without the comparison of the list lengths with the count:
\* zip() pairs the two lists up to the shorter one
get_results_unchecked(fundamental, count, x, y) ==
    IF count.fail \/ Len(count.toks) # 1 \/ count.toks[1].kind # "num"
    THEN <<>>
    ELSE IF count.toks[1].val > 0
         THEN IF x.fail \/ y.fail \/ ~all_num(nonblank(x.toks))
                  \/ ~all_num(nonblank(y.toks))
              THEN <<>>
              ELSE LET fx == nonblank(x.toks)
                       fy == nonblank(y.toks)
                       n == IF Len(fx) < Len(fy) THEN Len(fx) ELSE Len(fy)
                   IN filter_spurs(fundamental, SubSeq(fx, 1, n), SubSeq(fy, 1, n))
         ELSE <<>>

\* SpurSearch.get_results(): count, x, y are the analyzer's answers to the
\* FPE:COUN?, FPE:X? and FPE:Y? queries; every exception returns []
get_results(fundamental, count, x, y) ==
    IF count.fail \/ Len(count.toks) # 1 \/ count.toks[1].kind # "num"
    THEN <<>>
    ELSE IF count.toks[1].val > 0
         THEN IF x.fail \/ y.fail \/ ~all_num(nonblank(x.toks))
                  \/ ~all_num(nonblank(y.toks))
              THEN <<>>
              ELSE IF Len(nonblank(x.toks)) # count.toks[1].val
                       \/ Len(nonblank(y.toks)) # count.toks[1].val
                   THEN <<>>
                   ELSE filter_spurs(fundamental, nonblank(x.toks), nonblank(y.toks))
         ELSE <<>>

SpurFaults == {"none", "VSG_config", "VSA_config", "measure"}

\* run_spur_search_measurement, lines 241-245: the timed driver calls
spur_calls(c, fault, dt) ==
    LET c1 == call(c, "VSG_config") IN
    IF fault = "VSG_config" THEN raise(c1)
    ELSE LET c2 == call(tset(c1, "VSG_config", dt), "VSA_config") IN
         IF fault = "VSA_config" THEN raise(c2)
         ELSE LET c3 == call(tset(c2, "VSA_config", dt), "measure") IN
              IF fault = "measure" THEN raise(c3)
              ELSE tset(call(tset(c3, "measure", dt), "get_results"),
                        "get_results", dt)

\* run_spur_search_measurement: the dicts appended (none when the except
\* clause itself raises, which it does when timings is not yet bound)
spur_records(kind, ts, fundamental, c, spurs) ==
    IF kind = "range" THEN <<>>
    ELSE IF c.raised
         THEN <<[test_set |-> ts, type |-> "SpurSearch",
                 fundamental_frequency_hz |-> None, spurs |-> <<>>,
                 timings |-> c.timings, error |-> Some("exception")]>>
         ELSE <<[test_set |-> ts, type |-> "SpurSearch",
                 fundamental_frequency_hz |-> Some(fundamental), spurs |-> spurs,
                 timings |-> c.timings,
                 error |-> IF spurs = <<>> THEN Some("No spurs detected") ELSE None]>>

SpurTests ==
    {[family |-> "SpurSearch", kind |-> k, frequencies |-> {2440}] :
        k \in {"scalar", "list", "range"}}

SpurReadbacks ==
    {[count |-> Reply(<<Num(2)>>), x |-> Reply(<<Num(2441), Num(2460)>>),
      y |-> Reply(<<Num(-100), Num(-110)>>)],
     [count |-> Reply(<<Num(3)>>), x |-> Reply(<<Num(2441), Num(2460)>>),
      y |-> Reply(<<Num(-100), Num(-110), Num(-120)>>)],
     [count |-> Reply(<<Num(0)>>), x |-> Timeout, y |-> Timeout],
     [count |-> Timeout, x |-> Timeout, y |-> Timeout]}

SpurContext == [raised |-> FALSE, timings |-> <<>>, tlog |-> <<>>, ops |-> <<>>]

\* main.py lines 486-500: spur_instr = SpurSearch(...) for the next frequency,
\* and the except clause when the constructor raises
SpurSearchInit ==
    /\ pc = <<"SpurSearch", "init">>
    /\ \E f \in test[1].frequencies, oa \in OpenOutcomes, og \in OpenOutcomes :
       \E r \in {SpurSearch_init(socks, f, oa, og)} :
            /\ socks' = r.socks
            /\ spur_instr' = r.obj
            /\ IF r.raised
               THEN /\ test_set' = next_test_set(test_set)
                    /\ attempted' = attempted \cup {test_set}
                    /\ pc' = <<"SpurSearch", "finally">>
               ELSE /\ UNCHANGED <<test_set, attempted>>
                    /\ pc' = <<"SpurSearch", "run">>
    /\ UNCHANGED <<ntests, test, todo, results, previous_config, previous_freq, instr,
                   stn_instr, vsa_instance, vsg_instance, closed, lastRun,
                   lastInit, gr>>

\* main.py line 497: test_set = run_spur_search_measurement(test, test_set, spur_instr)
run_spur_search_measurement ==
    /\ pc = <<"SpurSearch", "run">>
    /\ \E fault \in SpurFaults, rb \in SpurReadbacks, dt \in Durations :
       \E kind \in {test[1].kind}, fundamental \in {spur_instr[1].fundamental_ghz} :
       \E c \in {IF kind = "range" THEN raise(SpurContext)
                 ELSE spur_calls(SpurContext, fault, dt)} :
       \E spurs \in {IF c.raised THEN <<>>
                     ELSE get_results(fundamental, rb.count, rb.x, rb.y)} :
       \E rec \in {spur_records(kind, test_set, fundamental, c, spurs)} :
            /\ results' = results \o [i \in 1..Len(rec) |-> entry(rec[i])]
            /\ lastRun' = [NoRun EXCEPT !.test_set = test_set, !.type = "SpurSearch",
                              !.raised = c.raised, !.ops = c.ops, !.tlog = c.tlog,
                              !.timings = c.timings, !.freq = fundamental,
                              !.appended = rec]
    /\ attempted' = attempted \cup {test_set}
    /\ test_set' = next_test_set(test_set)
    /\ pc' = <<"SpurSearch", "finally">>
    /\ UNCHANGED <<ntests, test, todo, previous_config, previous_freq, instr,
                   spur_instr, stn_instr, vsa_instance, vsg_instance, socks, closed,
                   lastInit, gr>>

\* main.py lines 501-507: the finally clause, then the next pass of
\* "for freq_ghz in frequencies" or the end of the list
SpurFinally ==
    /\ pc = <<"SpurSearch", "finally">>
    /\ IF spur_instr # None
       THEN \E fault \in SpurCloseFaults :
              /\ socks' = finalize(SpurSearch_close(socks, spur_instr[1], fault),
                                   {spur_instr[1].VSA, spur_instr[1].VSG})
              /\ closed' = [family |-> "SpurSearch", raised |-> fault # "none"]
       ELSE /\ socks' = socks
            /\ closed' = NoClose
    /\ spur_instr' = None
    /\ \/ /\ test[1].kind # "scalar"
          /\ test_set <= MaxSets
          /\ pc' = <<"SpurSearch", "init">>
          /\ UNCHANGED test
       \/ /\ pc' = <<"SpurSearch", "loop">>
          /\ test' = None
    /\ lastRun' = NoRun
    /\ UNCHANGED <<ntests, todo, test_set, results, previous_config, previous_freq,
                   instr, stn_instr, vsa_instance, vsg_instance, attempted,
                   lastInit, gr>>

SpurTest == TakeTest("SpurSearch", SpurTests)
SpurEnd == EndLoop("SpurSearch", <<"STN", "loop">>)

(***************************************************************************)
(* STN (SubThermalNoise.py, class option_functions).                       *)
(***************************************************************************)
StnStartOutcomes == OpenOutcomes \cup {"write_fail"}

\* option_functions.__init__: VSA_start, settimeout, VSG_start, VSG.write.
\* When it raises, the half-built object is dropped and its sessions finalized.
STN_init(S, freq, oa, og) ==
    LET a == bench_start(S, "VSA", oa) IN
    IF a.raised
    THEN [raised |-> TRUE, socks |-> a.socks, obj |-> None]
    ELSE LET g == bench_start(a.socks, "VSG", IF og = "write_fail" THEN "ok" ELSE og) IN
         IF g.raised
         THEN [raised |-> TRUE, socks |-> finalize(g.socks, {a.sock[1]}), obj |-> None]
         ELSE IF og = "write_fail"
              THEN [raised |-> TRUE,
                    socks |-> finalize(g.socks, {a.sock[1], g.sock[1]}), obj |-> None]
              ELSE [raised |-> FALSE, socks |-> g.socks,
                    obj |-> Some([VSA |-> a.sock[1], VSG |-> g.sock[1],
                                  frequency |-> freq])]

StnCloseFaults == {"none", "vsa_close", "vsg_close"}

\* option_functions.close_connections(): VSA.close() then VSG.close()
STN_close_connections(S, obj, fault) ==
    LET S1 == sock_close(S, Some(obj.VSA)) IN
    IF fault = "vsa_close" THEN S1 ELSE sock_close(S1, Some(obj.VSG))

Sum(seq) == IF seq = <<>> THEN 0 ELSE LET RECURSIVE sum(_)
                                           sum(q) == IF q = <<>> THEN 0
                                                     ELSE Head(q) + sum(Tail(q))
                                       IN sum(seq)
SeqMin(seq) == CHOOSE m \in {seq[i] : i \in 1..Len(seq)} :
                   \A i \in 1..Len(seq) : m <= seq[i]
SeqMax(seq) == CHOOSE m \in {seq[i] : i \in 1..Len(seq)} :
                   \A i \in 1..Len(seq) : m >= seq[i]

\* an eighth-of-a-dB count in thousandths of a dB
Milli(v) == 125 * v

\* a / n to the nearest integer, ties to even: what the format ".3f" prints
\* of a float that holds a / (1000 n) dB
round_half_even(a, n) ==
    LET q == a \div n
        r == a - q * n
    IN IF 2 * r < n THEN q
       ELSE IF 2 * r > n THEN q + 1
       ELSE IF q % 2 = 0 THEN q ELSE q + 1

\* get_Array_stats reporting the middle of the range as the average
get_Array_stats_midrange(in_arry) ==
    [Min |-> Milli(SeqMin(in_arry)), Max |-> Milli(SeqMax(in_arry)),
     Avg |-> round_half_even(Milli(SeqMin(in_arry) + SeqMax(in_arry)), 2),
     Delta |-> Milli(SeqMax(in_arry) - SeqMin(in_arry))]

\* option_functions.get_Array_stats: the numbers of the string
\*   Min:{min:.3f} Max:{max:.3f} Avg:{mean:.3f} StdDev:{..} Delta:{max - min:.3f}
\* (the standard deviation is left out)
get_Array_stats(in_arry) ==
    [Min |-> Milli(SeqMin(in_arry)), Max |-> Milli(SeqMax(in_arry)),
     Avg |-> round_half_even(Milli(Sum(in_arry)), Len(in_arry)),
     Delta |-> Milli(SeqMax(in_arry) - SeqMin(in_arry))]

\* the iteration loop left at the first failed measurement
stn_meas_stopping(sweeps, dt) ==
    LET failed == {i \in 1..Len(sweeps) : sweeps[i] = None}
        n == IF failed = {} THEN Len(sweeps)
             ELSE CHOOSE i \in failed : \A j \in failed : i <= j
    IN [i \in 1..n |->
           IF sweeps[i] = None THEN [marker |-> None, meas_time |-> SkippedTime]
                               ELSE [marker |-> sweeps[i], meas_time |-> dt]]

\* run_stn_measurement, lines 291-306: one entry of meas per iteration; a
\* sweep is None when get_VSA_sweep_noise_mkr raised, else Some(marker)
stn_meas(sweeps, dt) ==
    [i \in 1..Len(sweeps) |->
        IF sweeps[i] = None THEN [marker |-> None, meas_time |-> SkippedTime]
                            ELSE [marker |-> sweeps[i], meas_time |-> dt]]

valid_markers(meas) ==
    LET valid == SelectSeq(meas, LAMBDA m : m.marker # None)
    IN [i \in 1..Len(valid) |-> valid[i].marker[1]]

\* stn_record computing the statistics from a single valid marker on
stn_record_stats_from_one(ts, freq, iterations, config_raised, sweeps, dt) ==
    IF config_raised
    THEN [test_set |-> ts, type |-> "STN", center_frequency_hz |-> freq,
          iterations |-> iterations, markers |-> <<>>, stats |-> None,
          timings |-> [VSA_Config |-> None, get_VSA_sweep_noise_mkr |-> <<>>],
          total_test_time |-> 0, error |-> Some("exception")]
    ELSE LET meas == stn_meas(sweeps, dt)
             valid == valid_markers(meas)
         IN [test_set |-> ts, type |-> "STN", center_frequency_hz |-> freq,
             iterations |-> iterations, markers |-> meas,
             stats |-> IF Len(valid) >= 1
                       THEN Some(get_Array_stats(valid)) ELSE None,
             timings |-> [VSA_Config |-> Some(dt),
                          get_VSA_sweep_noise_mkr |->
                              [i \in 1..Len(meas) |-> meas[i].meas_time]],
             total_test_time |-> dt + Sum([i \in 1..Len(meas) |-> meas[i].meas_time]),
             error |-> IF valid = <<>> THEN Some("No successful measurements")
                       ELSE None]

\* run_stn_measurement: the dict appended to results
stn_record(ts, freq, iterations, config_raised, sweeps, dt) ==
    IF config_raised
    THEN [test_set |-> ts, type |-> "STN", center_frequency_hz |-> freq,
          iterations |-> iterations, markers |-> <<>>, stats |-> None,
          timings |-> [VSA_Config |-> None, get_VSA_sweep_noise_mkr |-> <<>>],
          total_test_time |-> 0, error |-> Some("exception")]
    ELSE LET meas == stn_meas(sweeps, dt)
             valid == valid_markers(meas)
         IN [test_set |-> ts, type |-> "STN", center_frequency_hz |-> freq,
             iterations |-> iterations, markers |-> meas,
             stats |-> IF Len(valid) >= MinStatSamples
                       THEN Some(get_Array_stats(valid)) ELSE None,
             timings |-> [VSA_Config |-> Some(dt),
                          get_VSA_sweep_noise_mkr |->
                              [i \in 1..Len(meas) |-> meas[i].meas_time]],
             total_test_time |-> dt + Sum([i \in 1..Len(meas) |-> meas[i].meas_time]),
             error |-> IF valid = <<>> THEN Some("No successful measurements")
                       ELSE None]

Sweeps == {None, Some(-150), Some(-148)}
Iterations == {1, 2}
SweepRuns(n) == [1..n -> Sweeps]

StnTests ==
    {[family |-> "STN", kind |-> k, frequencies |-> {6000}, iterations |-> n] :
        k \in {"scalar", "list"}, n \in Iterations}

\* main.py lines 546-552 and 555-557: stn_instr = STN(freq) when there is no
\* driver object, else STN_set_frequency; the except clause when that raises
STNInit ==
    /\ pc = <<"STN", "init">>
    /\ \E f \in test[1].frequencies, oa \in OpenOutcomes, og \in StnStartOutcomes,
          setfreq_raises \in BOOLEAN :
       \E r \in {IF stn_instr = None
                 THEN STN_init(socks, f, oa, og)
                 ELSE [raised |-> setfreq_raises, socks |-> socks,
                       obj |-> Some([stn_instr[1] EXCEPT !.frequency = f])]} :
            /\ socks' = r.socks
            /\ stn_instr' = r.obj
            /\ IF r.raised
               THEN /\ test_set' = next_test_set(test_set)
                    /\ attempted' = attempted \cup {test_set}
                    /\ pc' = <<"STN", "finally">>
               ELSE /\ UNCHANGED <<test_set, attempted>>
                    /\ pc' = <<"STN", "run">>
    /\ UNCHANGED <<ntests, test, todo, results, previous_config, previous_freq, instr,
                   spur_instr, vsa_instance, vsg_instance, closed, lastRun,
                   lastInit, gr>>

\* main.py lines 553-554: run_stn_measurement(stn_instr, freq * 1e9, test_set,
\* iterations=iterations); test_set += 1
run_stn_measurement ==
    /\ pc = <<"STN", "run">>
    /\ \E config_raised \in BOOLEAN, sweeps \in SweepRuns(test[1].iterations),
          dt \in Durations :
       \E rec \in {stn_record(test_set, stn_instr[1].frequency, test[1].iterations,
                              config_raised, sweeps, dt)} :
            /\ results' = Append(results, entry(rec))
            /\ lastRun' = [NoRun EXCEPT !.test_set = test_set, !.type = "STN",
                              !.raised = config_raised,
                              !.freq = stn_instr[1].frequency,
                              !.sweeps = IF config_raised THEN <<>> ELSE sweeps,
                              !.appended = <<rec>>]
    /\ attempted' = attempted \cup {test_set}
    /\ test_set' = next_test_set(test_set)
    /\ pc' = <<"STN", "finally">>
    /\ UNCHANGED <<ntests, test, todo, previous_config, previous_freq, instr,
                   spur_instr, stn_instr, vsa_instance, vsg_instance, socks, closed,
                   lastInit, gr>>

\* the finally clause closing the sessions but keeping the driver object
STNFinally_keeps_driver ==
    /\ pc = <<"STN", "finally">>
    /\ IF stn_instr # None
       THEN \E fault \in StnCloseFaults :
              /\ socks' = STN_close_connections(socks, stn_instr[1], fault)
              /\ closed' = [family |-> "STN", raised |-> fault # "none"]
       ELSE /\ socks' = socks
            /\ closed' = NoClose
    /\ stn_instr' = stn_instr
    /\ \/ /\ test[1].kind # "scalar"
          /\ test_set <= MaxSets
          /\ pc' = <<"STN", "init">>
          /\ UNCHANGED test
       \/ /\ pc' = <<"STN", "loop">>
          /\ test' = None
    /\ lastRun' = NoRun
    /\ UNCHANGED <<ntests, todo, test_set, results, previous_config, previous_freq,
                   instr, spur_instr, vsa_instance, vsg_instance, attempted,
                   lastInit, gr>>

\* main.py lines 558-564: the finally clause, then the next pass of
\* "for freq in frequencies" or the end of the list
STNFinally ==
    /\ pc = <<"STN", "finally">>
    /\ IF stn_instr # None
       THEN \E fault \in StnCloseFaults :
              /\ socks' = finalize(STN_close_connections(socks, stn_instr[1], fault),
                                   {stn_instr[1].VSA, stn_instr[1].VSG})
              /\ closed' = [family |-> "STN", raised |-> fault # "none"]
       ELSE /\ socks' = socks
            /\ closed' = NoClose
    /\ stn_instr' = None
    /\ \/ /\ test[1].kind # "scalar"
          /\ test_set <= MaxSets
          /\ pc' = <<"STN", "init">>
          /\ UNCHANGED test
       \/ /\ pc' = <<"STN", "loop">>
          /\ test' = None
    /\ lastRun' = NoRun
    /\ UNCHANGED <<ntests, todo, test_set, results, previous_config, previous_freq,
                   instr, spur_instr, vsa_instance, vsg_instance, attempted,
                   lastInit, gr>>

STNTest == TakeTest("STN", StnTests)
STNEnd == EndLoop("STN", <<"done", "done">>)

\* the whole run of main.py: the four family loops in file order
Next ==
    \/ NR5GTest \/ NR5GDriver \/ run_nr5g_measurement \/ NR5GFinally \/ NR5GEnd
    \/ LTETest \/ LTEDriver \/ run_lte_measurement \/ LTEFinally \/ LTEEnd
    \/ SpurTest \/ SpurSearchInit \/ run_spur_search_measurement \/ SpurFinally
    \/ SpurEnd
    \/ STNTest \/ STNInit \/ run_stn_measurement \/ STNFinally \/ STNEnd

Spec == Init /\ [][Next]_vars

(***************************************************************************)
(* The NR5G and LTE loops alone, with instruments that connect, answer     *)
(* well-formed read-backs and close, over the combinations of file names,  *)
(* ACLR flag, frequency list and power list of the test definitions and    *)
(* over the driver call that fails.                                        *)
(***************************************************************************)
ConfigFaults == {"none", "VSG_Config", "VSA_Config", "VSx_freq"}
GoodEvm == {Reply(<<Num(-40)>>)}
GoodAclr == {Reply(<<Num(-10), Num(-45), Num(-46), Num(-60), Num(-61)>>)}

NR5GAnyTest == TakeTest("NR5G", StdTests("NR5G", {NrWvA, NrWvB}, {NrDflA, NrDflB},
                                         {TRUE}, Frequencies, {<<-10>>}))
LTEAnyTest == TakeTest("LTE", StdTests("LTE", {LteWvA, LteWvB}, {LteDflA, LteDflB},
                                       {TRUE}, Frequencies, {<<-10>>}))

NR5GConnect == Construct("NR5G", {"ok"})
LTEConnect == Construct("LTE", {"ok"})
NR5GRun == RunStd("NR5G", ConfigFaults, GoodEvm, GoodAclr)
LTERun == RunStd("LTE", ConfigFaults, GoodEvm, GoodAclr)
NR5GClose == Finally("NR5G", {"ok"})
LTEClose == Finally("LTE", {"ok"})

NextStd ==
    \/ NR5GAnyTest \/ NR5GConnect \/ NR5GRun \/ NR5GClose \/ NR5GEnd
    \/ LTEAnyTest \/ LTEConnect \/ LTERun \/ LTEClose \/ LTEEnd

SpecStd == Init /\ [][NextStd]_vars

(***************************************************************************)
(* SpurSearch.get_results() alone, over the analyzer's possible answers.   *)
(***************************************************************************)
Fundamentals == {2440}
FreqToks == {Num(2430), Num(2441), Num(2451), Num(2460), Blank}
PowToks == {Num(-100), Num(-110)}

SeqsUpTo(T, n) == UNION {[1..k -> T] : k \in 0..n}

CountAnswers == {Reply(<<Num(k)>>) : k \in 0..MaxPeaks} \cup {Reply(<<BadTok>>), Timeout}
FreqAnswers == {Reply(q) : q \in SeqsUpTo(FreqToks, MaxPeaks)}
                   \cup {Reply(<<BadTok, Num(2460)>>), Timeout}
PowAnswers == {Reply(q) : q \in SeqsUpTo(PowToks, MaxPeaks)}
                  \cup {Reply(<<BadTok>>), Timeout}

InitSpur ==
    /\ pc = <<"get_results", "call">>
    /\ gr \in {[state |-> "called", fundamental |-> f, count |-> c,
                x |-> x, y |-> y, out |-> <<>>] :
                  f \in Fundamentals, c \in CountAnswers, x \in FreqAnswers,
                  y \in PowAnswers}
    /\ ntests = 0
    /\ test = None
    /\ todo = <<>>
    /\ test_set = 1
    /\ results = <<>>
    /\ previous_config = None
    /\ previous_freq = None
    /\ instr = None
    /\ spur_instr = None
    /\ stn_instr = None
    /\ vsa_instance = [f \in Families |-> None]
    /\ vsg_instance = [f \in Families |-> None]
    /\ socks = <<>>
    /\ attempted = {}
    /\ closed = NoClose
    /\ lastRun = NoRun
    /\ lastInit = NoInit

\* results_data, _ = instr.get_results()
GetResults ==
    /\ pc = <<"get_results", "call">>
    /\ gr' = [gr EXCEPT !.state = "returned",
                        !.out = get_results(gr.fundamental, gr.count, gr.x, gr.y)]
    /\ pc' = <<"get_results", "return">>
    /\ UNCHANGED <<ntests, test, todo, test_set, results, previous_config,
                   previous_freq, instr, spur_instr, stn_instr, vsa_instance,
                   vsg_instance, socks, attempted, closed, lastRun, lastInit>>

NextSpur == GetResults

SpecSpur == InitSpur /\ [][NextSpur]_vars

\* the orchestrator at rest, before any test definition is taken
rest == <<ntests, test, todo, test_set, results, previous_config, previous_freq,
          instr, spur_instr, stn_instr, vsa_instance, vsg_instance, socks,
          attempted, closed, lastRun, lastInit>>

Idle ==
    /\ ntests = 0
    /\ test = None
    /\ todo = <<>>
    /\ test_set = 1
    /\ results = <<>>
    /\ previous_config = None
    /\ previous_freq = None
    /\ instr = None
    /\ spur_instr = None
    /\ stn_instr = None
    /\ vsa_instance = [f \in Families |-> None]
    /\ vsg_instance = [f \in Families |-> None]
    /\ socks = <<>>
    /\ attempted = {}
    /\ closed = NoClose
    /\ lastRun = NoRun
    /\ lastInit = NoInit

(***************************************************************************)
(* The four loops with instruments that connect and close, over test       *)
(* definitions with one or two power levels and over the step of a test    *)
(* set that raises.                                                        *)
(***************************************************************************)
PowerLists == {<<-10>>, <<-10, 0>>}
AclrFaults == {Reply(<<Num(-10), Num(-45), Num(-46), Num(-60), Num(-61)>>),
               Reply(<<Num(-10), Num(-45), BadTok, Num(-60), Num(-61)>>)}

NR5GPowerTest == TakeTest("NR5G", StdTests("NR5G", {NrWvA}, {NrDflA}, {TRUE},
                                           {100, 104}, PowerLists))
LTEPowerTest == TakeTest("LTE", StdTests("LTE", {LteWvA}, {LteDflA}, {TRUE},
                                         {100, 104}, PowerLists))
NR5GStep == RunStd("NR5G", StdFaults, GoodEvm, AclrFaults)
LTEStep == RunStd("LTE", StdFaults, GoodEvm, AclrFaults)

NextLoops ==
    \/ NR5GPowerTest \/ NR5GConnect \/ NR5GStep \/ NR5GClose \/ NR5GEnd
    \/ LTEPowerTest \/ LTEConnect \/ LTEStep \/ LTEClose \/ LTEEnd
    \/ SpurTest \/ SpurSearchInit \/ run_spur_search_measurement \/ SpurFinally
    \/ SpurEnd
    \/ STNTest \/ STNInit \/ run_stn_measurement \/ STNFinally \/ STNEnd

SpecLoops == Init /\ [][NextLoops]_vars

(***************************************************************************)
(* Driver construction alone: the NR5G and LTE loops up to the constructor *)
(* and the finally clause, over file names of either family, either        *)
(* extension and neither grammar.                                          *)
(***************************************************************************)
AnyNames == WaveformFiles("NR5G") \cup SetupFiles("NR5G")
                \cup WaveformFiles("LTE") \cup SetupFiles("LTE")

NR5GNamedTest == TakeTest("NR5G", StdTests("NR5G", AnyNames, AnyNames, {TRUE},
                                           {100}, {<<-10>>}))
LTENamedTest == TakeTest("LTE", StdTests("LTE", AnyNames, AnyNames, {TRUE},
                                         {100}, {<<-10>>}))

NextInit ==
    \/ NR5GNamedTest \/ NR5GDriver \/ NR5GFinally \/ NR5GEnd
    \/ LTENamedTest \/ LTEDriver \/ LTEFinally \/ LTEEnd

SpecInit == Init /\ [][NextInit]_vars

(***************************************************************************)
(* The STN loop alone, over the iteration counts of the test definitions   *)
(* and over the measurements that fail.                                    *)
(***************************************************************************)
MaxIterations == 3

StnAnyTests ==
    {[family |-> "STN", kind |-> k, frequencies |-> {6000}, iterations |-> n] :
        k \in {"scalar", "list"}, n \in 0..MaxIterations}

STNAnyTest == TakeTest("STN", StnAnyTests)

InitStn ==
    /\ pc = <<"STN", "loop">>
    /\ gr = NoCall
    /\ Idle

NextStn == STNAnyTest \/ STNInit \/ run_stn_measurement \/ STNFinally \/ STNEnd

SpecStn == InitStn /\ [][NextStn]_vars

(***************************************************************************)
(* Functions studied on their own: the orchestrator is at rest, gr holds   *)
(* the input of one call, and the single step of the specification applies *)
(* the function to it.                                                     *)
(***************************************************************************)
(***************************************************************************)
(* utils.method_timer.  The wrapped method is given by what one call of it *)
(* does: it returns result or raises exc, and leaves the driver and its    *)
(* sessions in the state effect.  timeit.default_timer is a monotonic      *)
(* clock, read before and after the call.                                  *)
(***************************************************************************)
Exceptions == {"ValueError", "timeout", "OSError"}
MethodResults == {None, Some(-150), Some(-148)}
Effects == {"unchanged", "swept"}
Ticks == {0, 1, 2}

Returns(result, effect) ==
    [raised |-> FALSE, exc |-> None, result |-> result, effect |-> effect]
Raises(exc, effect) ==
    [raised |-> TRUE, exc |-> Some(exc), result |-> None, effect |-> effect]
Methods == {Returns(r, e) : r \in MethodResults, e \in Effects}
               \cup {Raises(x, e) : x \in Exceptions, e \in Effects}

\* a wrapper that catches the exception and returns (None, elapsed)
method_timer_swallowing(method, start_time, stop_time) ==
    [raised |-> FALSE, exc |-> None,
     value |-> Some(<<method.result, stop_time - start_time>>),
     effect |-> method.effect]

\* wrapper(*args, **kwargs) of method_timer: no try, so a raise of the
\* method leaves the wrapper at once; else return result, delta_time
method_timer(method, start_time, stop_time) ==
    IF method.raised
    THEN [raised |-> TRUE, exc |-> method.exc, value |-> None,
          effect |-> method.effect]
    ELSE [raised |-> FALSE, exc |-> None,
          value |-> Some(<<method.result, stop_time - start_time>>),
          effect |-> method.effect]

InitTimer ==
    /\ pc = <<"method_timer", "call">>
    /\ gr \in {[state |-> "called", method |-> m, start_time |-> t0,
                stop_time |-> t0 + d, out |-> <<>>] :
                  m \in Methods, t0 \in Ticks, d \in Ticks}
    /\ Idle

\* one call of a wrapped method
TimedCall ==
    /\ pc = <<"method_timer", "call">>
    /\ gr' = [gr EXCEPT !.state = "returned",
                        !.out = method_timer(gr.method, gr.start_time, gr.stop_time)]
    /\ pc' = <<"method_timer", "return">>
    /\ UNCHANGED rest

NextTimer == TimedCall

SpecTimer == InitTimer /\ [][NextTimer]_vars

(***************************************************************************)
(* option_functions.get_Array_stats alone, over arrays of markers.         *)
(***************************************************************************)
MaxSamples == 3
Samples == {-736, -728, -721, -720}

InitStats ==
    /\ pc = <<"get_Array_stats", "call">>
    /\ gr \in {[state |-> "called", in_arry |-> a, out |-> <<>>] :
                  a \in SeqsUpTo(Samples, MaxSamples) \ {<<>>}}
    /\ Idle

\* stats = stn_instr.get_Array_stats(np.array(valid_markers))
ArrayStats ==
    /\ pc = <<"get_Array_stats", "call">>
    /\ gr' = [gr EXCEPT !.state = "returned", !.out = Some(get_Array_stats(gr.in_arry))]
    /\ pc' = <<"get_Array_stats", "return">>
    /\ UNCHANGED rest

NextStats == ArrayStats

SpecStats == InitStats /\ [][NextStats]_vars

(***************************************************************************)
(* option_functions.get_VSA_sweep_noise_mkr on a connected driver, one     *)
(* step per command sent to the analyzer.  gr holds what the analyzer does *)
(* with each command, the two clock readings of method_timer, the commands *)
(* sent so far and the outcome of the call.                                *)
(***************************************************************************)
\* the commands with the sweep triggered before continuous sweep is disabled
mkr_command_trigger_first(step) ==
    IF step = "write" THEN "INIT:IMM;*OPC?"
    ELSE IF step = "sweep" THEN "INIT:CONT OFF"
    ELSE ":CALC:MARK:FUNC:NOIS:RES?"

\* the command sent at each step of get_VSA_sweep_noise_mkr
mkr_command(step) ==
    IF step = "write" THEN "INIT:CONT OFF"
    ELSE IF step = "sweep" THEN "INIT:IMM;*OPC?"
    ELSE ":CALC:MARK:FUNC:NOIS:RES?"

\* iSocket.queryFloat: float(self.query(cmd))
queryFloat(resp) ==
    IF resp.fail THEN Raises("timeout", "swept")
    ELSE IF resp.toks = <<>> \/ resp.toks[1].kind # "num"
         THEN Raises("ValueError", "swept")
         ELSE Returns(Some(Float(resp.toks[1].val)), "swept")

MarkerAnswers == {Reply(<<Num(-150)>>), Reply(<<Num(-148)>>), Reply(<<BadTok>>),
                  Reply(<<>>), Timeout}
OpcAnswers == {Reply(<<Num(1)>>), Timeout}

InitSweep ==
    /\ pc = <<"get_VSA_sweep_noise_mkr", "write">>
    /\ gr \in {[state |-> "called", write_ok |-> w, opc |-> o, res |-> r,
                start_time |-> t0, stop_time |-> t0 + d, sent |-> <<>>,
                out |-> <<>>] :
                  w \in BOOLEAN, o \in OpcAnswers, r \in MarkerAnswers,
                  t0 \in Ticks, d \in Ticks}
    /\ Idle

\* self.VSA.write('INIT:CONT OFF')
mkr_write ==
    /\ pc = <<"get_VSA_sweep_noise_mkr", "write">>
    /\ IF gr.write_ok
       THEN /\ gr' = [gr EXCEPT !.sent = Append(@, mkr_command("write"))]
            /\ pc' = <<"get_VSA_sweep_noise_mkr", "sweep">>
       ELSE /\ gr' = [gr EXCEPT !.sent = Append(@, mkr_command("write")),
                                !.state = "raised",
                                !.out = Some(method_timer(Raises("OSError", "unchanged"),
                                                          gr.start_time, gr.stop_time))]
            /\ pc' = <<"get_VSA_sweep_noise_mkr", "raise">>
    /\ UNCHANGED rest

\* self.VSA.query('INIT:IMM;*OPC?')
mkr_sweep ==
    /\ pc = <<"get_VSA_sweep_noise_mkr", "sweep">>
    /\ IF ~gr.opc.fail
       THEN /\ gr' = [gr EXCEPT !.sent = Append(@, mkr_command("sweep"))]
            /\ pc' = <<"get_VSA_sweep_noise_mkr", "read">>
       ELSE /\ gr' = [gr EXCEPT !.sent = Append(@, mkr_command("sweep")),
                                !.state = "raised",
                                !.out = Some(method_timer(Raises("timeout", "unchanged"),
                                                          gr.start_time, gr.stop_time))]
            /\ pc' = <<"get_VSA_sweep_noise_mkr", "raise">>
    /\ UNCHANGED rest

\* marker = self.VSA.queryFloat(':CALC:MARK:FUNC:NOIS:RES?'); return marker
mkr_read ==
    /\ pc = <<"get_VSA_sweep_noise_mkr", "read">>
    /\ \E m \in {queryFloat(gr.res)} :
         /\ gr' = [gr EXCEPT !.sent = Append(@, mkr_command("read")),
                             !.state = IF m.raised THEN "raised" ELSE "returned",
                             !.out = Some(method_timer(m, gr.start_time, gr.stop_time))]
         /\ pc' = <<"get_VSA_sweep_noise_mkr", IF m.raised THEN "raise" ELSE "return">>
    /\ UNCHANGED rest

NextSweep == mkr_write \/ mkr_sweep \/ mkr_read

SpecSweep == InitSweep /\ [][NextSweep]_vars

(***************************************************************************)
(* std_insr_driver._extract_waveform_params.  Here a file name is the text *)
(* of its parts between the separators "_" and ".": std, ldir, mod and ext *)
(* are the words the pattern spells out, and bw, scs, rb, rbo are          *)
(* sequences of characters such as <<"1", "0", "M", "H", "z">>.            *)
(***************************************************************************)
DigitChars == <<"0", "1", "2", "3", "4", "5", "6", "7", "8", "9">>
MHzText == <<"M", "H", "z">>
kHzText == <<"k", "H", "z">>
RBText == <<"R", "B">>
RBOText == <<"R", "B", "O">>

is_digits(t) == t # <<>> /\ \A i \in 1..Len(t) : \E d \in 1..10 : DigitChars[d] = t[i]

\* str(n)
RECURSIVE Decimal(_)
Decimal(n) ==
    IF n < 10 THEN <<DigitChars[n + 1]>>
    ELSE Decimal(n \div 10) \o <<DigitChars[(n % 10) + 1]>>

\* int(t), for a text of digits
RECURSIVE int(_)
int(t) ==
    LET last == (CHOOSE d \in 1..10 : DigitChars[d] = t[Len(t)]) - 1
    IN IF Len(t) = 1 THEN last ELSE 10 * int(SubSeq(t, 1, Len(t) - 1)) + last

\* t.replace(old, "")
RECURSIVE replace(_, _)
replace(t, old) ==
    IF Len(t) < Len(old) THEN t
    ELSE IF SubSeq(t, 1, Len(old)) = old
         THEN replace(SubSeq(t, Len(old) + 1, Len(t)), old)
         ELSE <<Head(t)>> \o replace(Tail(t), old)

\* the group (\d+<unit>) of the pattern
group_matches(t, unit) ==
    /\ Len(t) > Len(unit)
    /\ SubSeq(t, Len(t) - Len(unit) + 1, Len(t)) = unit
    /\ is_digits(SubSeq(t, 1, Len(t) - Len(unit)))

\* re.match(pattern, file_name) of _extract_waveform_params
waveform_match(name) ==
    /\ name.std = "5GNR"
    /\ name.ldir \in {"UL", "DL"}
    /\ group_matches(name.bw, MHzText)
    /\ name.mod \in Modulations("NR5G")
    /\ group_matches(name.scs, kHzText)
    /\ group_matches(name.rb, RBText)
    /\ group_matches(name.rbo, RBOText)
    /\ name.ext = "wv"

\* the body of _extract_waveform_params, with the text it strips from the
\* last group: {} (None here) when there is no match or an int() raises
waveform_params(name, rbo_unit) ==
    IF ~waveform_match(name) THEN None
    ELSE LET bw == replace(name.bw, MHzText)
             scs == replace(name.scs, kHzText)
             rb == replace(name.rb, RBText)
             rbo == replace(name.rbo, rbo_unit)
         IN IF ~(is_digits(bw) /\ is_digits(scs) /\ is_digits(rb) /\ is_digits(rbo))
            THEN None
            ELSE Some([signal_type |-> "5GNR",
                       link_direction |-> name.ldir,
                       bandwidth_mhz |-> int(bw),
                       modulation |-> name.mod,
                       subcarrier_spacing_khz |-> int(scs),
                       resource_blocks |-> int(rb),
                       resource_block_offset |-> int(rbo),
                       duplexing |-> IF name.ldir = "UL" THEN "FDD" ELSE "TDD"])

\* _extract_waveform_params stripping "RB" from the offset group
extract_waveform_params_rb(name) == waveform_params(name, RBText)

\* std_insr_driver._extract_waveform_params
extract_waveform_params(name) == waveform_params(name, RBOText)

\* the text of the name that encodes the fields f, numbers written with the
\* leading characters pad
waveform_name(f, pad) ==
    [std |-> f[1], ldir |-> f[2], bw |-> pad \o Decimal(f[3]) \o MHzText,
     mod |-> f[4], scs |-> pad \o Decimal(f[5]) \o kHzText,
     rb |-> pad \o Decimal(f[6]) \o RBText,
     rbo |-> pad \o Decimal(f[7]) \o RBOText, ext |-> f[8]]

EncodedNames ==
    {FileName(std, ldir, bw, mod, scs, rb, rbo, ext) :
        std \in {"5GNR"}, ldir \in {"UL", "DL"}, bw \in {5, 10, 100},
        mod \in Modulations("NR5G") \cup {"QAM256"}, scs \in {15, 30},
        rb \in {24, 273}, rbo \in {0, 12}, ext \in {"wv"}}
        \cup {BadName, LteWvA, NrDflA}
Paddings == {<<>>, <<"0">>, <<"x">>}

InitExtract ==
    /\ pc = <<"_extract_waveform_params", "call">>
    /\ gr \in {[state |-> "called", fields |-> f, name |-> waveform_name(f, p),
                out |-> None] : f \in EncodedNames, p \in Paddings}
    /\ Idle

\* self.waveform_params = self._extract_waveform_params(waveform_file)
ExtractParams ==
    /\ pc = <<"_extract_waveform_params", "call">>
    /\ gr' = [gr EXCEPT !.state = "returned",
                        !.out = extract_waveform_params(gr.name)]
    /\ pc' = <<"_extract_waveform_params", "return">>
    /\ UNCHANGED rest

NextExtract == ExtractParams

SpecExtract == InitExtract /\ [][NextExtract]_vars

(***************************************************************************)
(* iSocket.query on one session.  The session is the VSA or VSG socket of  *)
(* a driver, either inside iSocket.open (the '*IDN?' of the connect) or    *)
(* after the driver's constructor has returned; its read timeout is what   *)
(* the code has set on it by then.  The instrument answers, stays silent,  *)
(* or has dropped the connection.  recv on a socket without a timeout      *)
(* returns only when data arrives: on a silent instrument no step of the   *)
(* call is enabled any more.                                               *)
(***************************************************************************)
Drivers == {"NR5G", "SpurSearch", "STN"}
Roles == {"VSA", "VSG"}
Instruments == {"answers", "silent", "dropped"}

\* socket.socket() of iSocket.__init__ is blocking; the settimeout calls of
\* the constructors come after bench().VSx_start() has returned
session_timeout(driver, role, stage) ==
    IF stage = "open" THEN None
    ELSE IF driver = "SpurSearch" THEN Some(ReadTimeout)
    ELSE IF role = "VSA" THEN Some(ReadTimeout)
    ELSE None

\* the queries the code sends on a session
Queries(driver, role, stage) ==
    IF stage = "open" THEN {"*IDN?"}
    ELSE IF driver = "NR5G"
         THEN IF role = "VSA"
              THEN {"*IDN?", "INIT:IMM;*OPC?", ":FETC:CC1:SUMM:EVM:ALL:AVER?"}
              ELSE {"*IDN?", "*OPC?", ":SOUR1:POW:PEP?"}
    ELSE IF driver = "SpurSearch"
         THEN IF role = "VSA"
              THEN {"*RST;*OPC?", "INIT:IMM;*OPC?", ":CALC:MARK:FUNC:FPE:COUN?"}
              ELSE {"*RST;*OPC?"}
    ELSE IF role = "VSA"
         THEN {"*RST;*OPC?", "INIT:IMM;*OPC?", ":CALC:MARK:FUNC:NOIS:RES?"}
         ELSE {}

InitQuery ==
    /\ pc = <<"query", "send">>
    /\ gr \in {[state |-> "called", driver |-> d, role |-> r, stage |-> st,
                timeout |-> session_timeout(d, r, st), cmd |-> q,
                instrument |-> i, out |-> <<>>] :
                  d \in Drivers, r \in Roles, st \in {"open", "driver"},
                  q \in UNION {Queries(d1, r1, st1) : d1 \in Drivers, r1 \in Roles,
                                                    st1 \in {"open", "driver"}},
                  i \in Instruments}
    /\ gr.cmd \in Queries(gr.driver, gr.role, gr.stage)
    /\ Idle

\* self.sock.send(f"{cmd}\n".encode())
query_send ==
    /\ pc = <<"query", "send">>
    /\ IF gr.instrument = "dropped"
       THEN /\ pc' = <<"query", "raise">>
            /\ gr' = [gr EXCEPT !.state = "raised", !.out = Some("OSError")]
       ELSE /\ pc' = <<"query", "recv">>
            /\ gr' = [gr EXCEPT !.state = "sent"]
    /\ UNCHANGED rest

\* response = self.sock.recv(1024).decode().strip(); return response
query_recv ==
    /\ pc = <<"query", "recv">>
    /\ gr.instrument = "answers"
    /\ pc' = <<"query", "return">>
    /\ gr' = [gr EXCEPT !.state = "returned", !.out = Some("response")]
    /\ UNCHANGED rest

\* recv raising socket.timeout once the read timeout has elapsed
query_timeout ==
    /\ pc = <<"query", "recv">>
    /\ gr.instrument = "silent"
    /\ gr.timeout # None
    /\ pc' = <<"query", "raise">>
    /\ gr' = [gr EXCEPT !.state = "raised", !.out = Some("timeout")]
    /\ UNCHANGED rest

NextQuery == query_send \/ query_recv \/ query_timeout

\* a step of the call that can be taken is taken: the interpreter runs the
\* call, and the socket's timer expires
SpecQuery == InitQuery /\ [][NextQuery]_vars /\ WF_vars(NextQuery)

(***************************************************************************)
(* Properties.                                                             *)
(***************************************************************************)
InOps(op) == \E i \in 1..Len(lastRun.ops) : lastRun.ops[i] = op
Before(a, b) == \E i, j \in 1..Len(lastRun.ops) :
                    i < j /\ lastRun.ops[i] = a /\ lastRun.ops[j] = b

\* C1: every test set that has been started has left at least one record in
\* results, whether its processing succeeded or raised.
C1_EveryStartedTestSetLeavesARecord ==
    \A ts \in attempted : \E i \in 1..Len(results) : results[i].test_set = ts

\* C2: no two records of results carry the same test_set number.
C2_AtMostOneRecordPerTestSet ==
    \A i, j \in 1..Len(results) :
        results[i].test_set = results[j].test_set => i = j

\* a run that has appended an error record of the spur search (the except
\* clause of run_spur_search_measurement) and, later, a record of STN
C2_Witness ==
    \E i, j \in 1..Len(results) :
        /\ i < j
        /\ results[i].type = "SpurSearch" /\ results[i].error
        /\ results[j].type = "STN"

\* C3: at every point of a run at most one VSA socket and at most one VSG
\* socket is open.
C3_AtMostOneOpenSessionPerRole ==
    /\ Cardinality(OpenSocks("VSA")) <= 1
    /\ Cardinality(OpenSocks("VSG")) <= 1

\* C4: a driver construction connects a role only when the registry slot of
\* its class is empty, and then exactly once; a slot that is occupied is
\* kept, the driver gets the very session in it, and no socket is opened for
\* that role.
C4_SlotsConnectOnceAndAreReused ==
    lastInit.family \in Families =>
        LET fam == lastInit.family
            openedFor(role) == {i \in lastInit.opened : socks[i].role = role}
        IN /\ lastInit.vsa_before # None =>
                  /\ vsa_instance[fam] = lastInit.vsa_before
                  /\ openedFor("VSA") = {}
           /\ lastInit.vsg_before # None =>
                  /\ vsg_instance[fam] = lastInit.vsg_before
                  /\ openedFor("VSG") = {}
           /\ ~lastInit.raised =>
                  /\ instr # None
                  /\ vsa_instance[fam] = Some(instr[1].VSA)
                  /\ vsg_instance[fam] = Some(instr[1].VSG)
                  /\ lastInit.vsa_before = None => openedFor("VSA") = {instr[1].VSA}
                  /\ lastInit.vsg_before = None => openedFor("VSG") = {instr[1].VSG}

\* an NR5G construction that succeeded with both slots occupied beforehand
\* (left by a construction that raised after assigning them)
C4_Witness ==
    /\ lastInit.family = "NR5G"
    /\ ~lastInit.raised
    /\ lastInit.vsa_before # None
    /\ lastInit.vsg_before # None
    /\ lastInit.opened = {}

\* C5: when the finally clause has called close_connections(), both registry
\* slots of the class are empty (and with them both sessions closed), also
\* when closing the first socket failed.
C5_CloseClearsBothSlots ==
    \A fam \in Families :
        (pc = <<fam, "loop">> /\ closed.family = fam) =>
            /\ vsa_instance[fam] = None
            /\ vsg_instance[fam] = None
            /\ \A i \in DOMAIN socks : socks[i].state = "open" =>
                   \E other \in Families \ {fam} :
                       Some(i) \in {vsa_instance[other], vsg_instance[other]}

\* C6: VSG_Config is called exactly when there is no previous configuration
\* or the waveform or setup file differs from it; VSA_Config is called only
\* after VSG_Config and, unless the test set raised, whenever VSG_Config was;
\* with an identical configuration neither is called.
C6_ReconfigureIffConfigChanged ==
    lastRun.type \in Families =>
        LET changed == \/ lastRun.entry_config = None
                       \/ lastRun.entry_config[1].waveform_file
                              # lastRun.cfg[1].waveform_file
                       \/ lastRun.entry_config[1].setup_file
                              # lastRun.cfg[1].setup_file
        IN /\ InOps("VSG_Config") <=> changed
           /\ InOps("VSA_Config") => Before("VSG_Config", "VSA_Config")
           /\ (changed /\ ~lastRun.raised) =>
                  /\ Len(lastRun.ops) >= 2
                  /\ lastRun.ops[1] = "VSG_Config"
                  /\ lastRun.ops[2] = "VSA_Config"
           /\ ~changed => ~InOps("VSG_Config") /\ ~InOps("VSA_Config")

\* a test set with the files of the previous one: no reconfiguration, and the
\* measurement went on
C6_Witness ==
    /\ lastRun.type \in Families
    /\ lastRun.entry_config # None
    /\ lastRun.entry_config = lastRun.cfg
    /\ ~InOps("VSG_Config")
    /\ InOps("VSA_get_EVM")

\* C7: VSx_freq is called exactly when there is no previous frequency or the
\* frequency differs from it by more than 1e-3 Hz: not for a difference of 0,
\* of 5e-4 or of exactly 1e-3, but for a difference of 2e-3.
C7_RetuneIffBeyondTolerance ==
    (lastRun.type \in Families /\ lastRun.checked # None) =>
        LET prev == lastRun.checked[1]
            delta == Abs(prev[1] - lastRun.freq)
        IN /\ InOps("VSx_freq") <=> (prev = None \/ delta > FreqTolerance)
           /\ (prev # None /\ delta \in {0, 1, 2}) => ~InOps("VSx_freq")
           /\ (prev # None /\ delta = 4) => InOps("VSx_freq")

\* a test set whose frequency is exactly 1e-3 Hz off the previous one, and
\* which did not retune
C7_Witness ==
    /\ lastRun.type \in Families
    /\ lastRun.checked # None
    /\ lastRun.checked[1] # None
    /\ Abs(lastRun.checked[1][1] - lastRun.freq) = FreqTolerance
    /\ ~InOps("VSx_freq")
    /\ InOps("VSA_get_EVM")

\* C8: an NR5G test set with unchanged files and a frequency within the
\* tolerance calls none of VSG_Config, VSA_Config and VSx_freq, its record's
\* timing map holds all three keys with the value 0.0, and VSA_get_EVM is
\* called.
C8_SkippedStepsTimedZero ==
    (/\ lastRun.type = "NR5G"
     /\ lastRun.appended # <<>>
     /\ lastRun.entry_config = lastRun.cfg
     /\ lastRun.checked # None
     /\ lastRun.checked[1] # None
     /\ Abs(lastRun.checked[1][1] - lastRun.freq) <= FreqTolerance) =>
        /\ ~InOps("VSG_Config") /\ ~InOps("VSA_Config") /\ ~InOps("VSx_freq")
        /\ InOps("VSA_get_EVM")
        /\ \A k \in {"VSG_Config", "VSA_Config", "VSx_freq"} :
               /\ k \in DOMAIN lastRun.appended[1].timings
               /\ lastRun.appended[1].timings[k] = SkippedTime

GrCount == gr.count.toks[1].val
GrFreqs == nonblank(gr.x.toks)
GrPowers == nonblank(gr.y.toks)
GrAnswered ==
    /\ ~gr.count.fail /\ Len(gr.count.toks) = 1 /\ gr.count.toks[1].kind = "num"
    /\ GrCount > 0
    /\ ~gr.x.fail /\ ~gr.y.fail
GrAgree ==
    /\ GrAnswered
    /\ all_num(GrFreqs) /\ all_num(GrPowers)
    /\ Len(GrFreqs) = GrCount /\ Len(GrPowers) = GrCount

\* C9: every spur get_results() returns lies more than 10 MHz from the
\* fundamental; when count and list lengths agree, the peaks that do are all
\* returned, each with its own power, in instrument order; with the
\* fundamental at 2.44 GHz a peak at 2.441 GHz is never returned and a peak
\* at 2.460 GHz is.
C9_SpursOutsideExclusionWindow ==
    gr.state = "returned" =>
        /\ \A k \in 1..Len(gr.out) :
               Abs(gr.out[k][1] - gr.fundamental) > ExclusionWindow
        /\ GrAgree =>
               LET outside == {i \in 1..Len(GrFreqs) :
                                  Abs(GrFreqs[i].val - gr.fundamental) > ExclusionWindow}
               IN /\ Len(gr.out) = Cardinality(outside)
                  /\ \A i \in outside :
                         gr.out[Cardinality({j \in outside : j <= i})]
                             = <<GrFreqs[i].val, GrPowers[i].val>>
        /\ gr.fundamental = 2440 =>
               /\ \A k \in 1..Len(gr.out) : gr.out[k][1] # 2441
               /\ GrAgree =>
                      \A i \in 1..Len(GrFreqs) :
                          GrFreqs[i].val = 2460 =>
                              \E k \in 1..Len(gr.out) : gr.out[k][1] = 2460

\* peaks at 2.441 GHz and 2.460 GHz around a fundamental of 2.44 GHz: only
\* the second is returned
C9_Witness ==
    /\ gr.state = "returned"
    /\ gr.fundamental = 2440
    /\ gr.count = Reply(<<Num(2)>>)
    /\ gr.x = Reply(<<Num(2441), Num(2460)>>)
    /\ gr.y = Reply(<<Num(-100), Num(-110)>>)
    /\ gr.out = << <<2460, -110>> >>

\* C10: when the number of frequency values or of power values differs from
\* the reported peak count, get_results() returns the empty list; a list
\* that is not empty comes from lists of exactly the reported length.
C10_MismatchReturnsEmpty ==
    (gr.state = "returned" /\ GrAnswered) =>
        /\ (Len(GrFreqs) # GrCount \/ Len(GrPowers) # GrCount) => gr.out = <<>>
        /\ gr.out # <<>> => Len(GrFreqs) = GrCount /\ Len(GrPowers) = GrCount

\* a count of 3 with only two frequency values, both outside the window
C10_Witness ==
    /\ gr.state = "returned"
    /\ gr.count = Reply(<<Num(3)>>)
    /\ gr.x = Reply(<<Num(2451), Num(2460)>>)
    /\ gr.y = Reply(<<Num(-100), Num(-110), Num(-100)>>)
    /\ gr.out = <<>>
FiveNumbers(resp) ==
    /\ ~resp.fail
    /\ Len(resp.toks) = AclrFields
    /\ \A i \in 1..Len(resp.toks) : resp.toks[i].kind = "num"

\* C12: whatever the ACLR query answers, the handler produces the record of
\* the test set; its five ACLR fields are the five numbers of the response
\* when the response is exactly five numeric fields, and null otherwise.
C12_AclrFieldsOnlyFromFiveNumbers ==
    (lastRun.type \in Families /\ lastRun.aclr_in # None)
    => /\ lastRun.appended # <<>>
       /\ \A i \in 1..Len(lastRun.appended) :
             IF FiveNumbers(lastRun.aclr_in[1])
             THEN lastRun.appended[i].aclr =
                      Some([k \in 1..AclrFields |-> lastRun.aclr_in[1].toks[k].val])
             ELSE lastRun.appended[i].aclr = None

\* C13: a call of a method wrapped by method_timer returns the pair (result
\* of the method, elapsed time between the two clock readings) when the
\* method returns; when the method raises, the call raises the same
\* exception and returns no pair; either way the driver and its sessions are
\* left as the method left them.
C13_TimerReturnsPairOrPropagates ==
    pc = <<"method_timer", "return">>
    => /\ gr.out.effect = gr.method.effect
       /\ IF gr.method.raised
          THEN /\ gr.out.raised
               /\ gr.out.exc = gr.method.exc
               /\ gr.out.value = None
          ELSE /\ ~gr.out.raised
               /\ gr.out.exc = None
               /\ gr.out.value # None
               /\ gr.out.value[1][1] = gr.method.result
               /\ gr.out.value[1][2] = gr.stop_time - gr.start_time
               /\ gr.out.value[1][2] >= 0

C13_Witness ==
    /\ pc = <<"method_timer", "return">>
    /\ gr.method = Raises("timeout", "swept")
    /\ gr.out.raised
    /\ gr.out.exc = Some("timeout")

\* the markers of the measurements that succeeded, failed ones counted as 0
Succeeded(sweeps) == {i \in 1..Len(sweeps) : sweeps[i] # None}
Contribution(sweeps) ==
    [i \in 1..Len(sweeps) |-> IF sweeps[i] = None THEN 0 ELSE sweeps[i][1]]

C15_EveryQueryTerminates ==
    (pc = <<"query", "recv">>) ~> (pc \in {<<"query", "return">>, <<"query", "raise">>})

\* the name of the call spells the NR5G waveform grammar
\*   5GNR_<UL|DL>_<N>MHz_<MOD>_<N>kHz_<N>RB_<N>RBO.wv
GrammarName(name) ==
    /\ name.std = "5GNR" /\ name.ext = "wv"
    /\ name.ldir \in {"UL", "DL"}
    /\ name.mod \in {"QPSK", "16QAM", "64QAM", "256QAM", "1024QAM"}
    /\ \E bw, scs, rb, rbo \in {<<>>, <<"0">>} :
         /\ name.bw = bw \o Decimal(gr.fields[3]) \o <<"M", "H", "z">>
         /\ name.scs = scs \o Decimal(gr.fields[5]) \o <<"k", "H", "z">>
         /\ name.rb = rb \o Decimal(gr.fields[6]) \o <<"R", "B">>
         /\ name.rbo = rbo \o Decimal(gr.fields[7]) \o <<"R", "B", "O">>

\* C16: for a waveform file name of the NR5G grammar, _extract_waveform_params
\* returns the descriptor with exactly the encoded link direction, bandwidth,
\* modulation, subcarrier spacing, resource blocks and offset, and duplexing
\* FDD for UL, TDD for DL; whatever the name, the result is either empty or
\* carries every key.
C16_ExtractRecoversEncodedFields ==
    pc = <<"_extract_waveform_params", "return">>
    => /\ GrammarName(gr.name)
          => /\ gr.out # None
             /\ gr.out[1].link_direction = gr.fields[2]
             /\ gr.out[1].bandwidth_mhz = gr.fields[3]
             /\ gr.out[1].modulation = gr.fields[4]
             /\ gr.out[1].subcarrier_spacing_khz = gr.fields[5]
             /\ gr.out[1].resource_blocks = gr.fields[6]
             /\ gr.out[1].resource_block_offset = gr.fields[7]
             /\ gr.out[1].duplexing = "FDD" <=> gr.fields[2] = "UL"
             /\ gr.out[1].duplexing = "TDD" <=> gr.fields[2] = "DL"
       /\ gr.out # None
          => DOMAIN gr.out[1] =
                 {"signal_type", "link_direction", "bandwidth_mhz", "modulation",
                  "subcarrier_spacing_khz", "resource_blocks",
                  "resource_block_offset", "duplexing"}

C16_Witness ==
    /\ pc = <<"_extract_waveform_params", "return">>
    /\ gr.fields = FileName("5GNR", "DL", 100, "1024QAM", 30, 273, 12, "wv")
    /\ gr.name.bw = <<"0", "1", "0", "0", "M", "H", "z">>
    /\ gr.out # None
    /\ gr.out[1].bandwidth_mhz = 100
    /\ gr.out[1].resource_block_offset = 12
    /\ gr.out[1].duplexing = "TDD"

\* C17: when the waveform or the setup file name given to the constructor of
\* a driver does not match the grammar of its family, the constructor raises:
\* no driver object (and so no descriptor) exists, and no connection has been
\* opened.
C17_BadNameAbortsConstruction ==
    (/\ lastInit.family \in Families
     /\ \/ /\ test[1].waveform_file # None
           /\ ~matches_pattern(lastInit.family, test[1].waveform_file, "wv")
        \/ /\ test[1].setup_file # None
           /\ ~matches_pattern(lastInit.family, test[1].setup_file, "dfl"))
    => /\ lastInit.raised
       /\ instr = None
       /\ lastInit.opened = {}
       /\ pc = <<lastInit.family, "finally">>

C17_Witness ==
    /\ lastInit.family = "NR5G"
    /\ test[1].waveform_file = NrWvA
    /\ test[1].setup_file = NrWvA
    /\ lastInit.raised
    /\ instr = None

\* C18: for a non-empty array of samples get_Array_stats reports the smallest
\* sample as Min, the largest as Max, their difference as Delta and the
\* arithmetic mean, to the three decimals printed, as Avg; so Delta >= 0 and
\* Min <= Avg <= Max; for [-90.0, -92.0] dB it reports Min -92.000,
\* Max -90.000, Avg -91.000 and Delta 2.000.
C18_StatsOfSamples ==
    pc = <<"get_Array_stats", "return">>
    => LET a == gr.in_arry
           n == Len(gr.in_arry)
           st == gr.out[1]
       IN /\ \E i \in 1..n : st.Min = 125 * a[i]
          /\ \E i \in 1..n : st.Max = 125 * a[i]
          /\ \A i \in 1..n : st.Min <= 125 * a[i] /\ 125 * a[i] <= st.Max
          /\ st.Delta = st.Max - st.Min
          /\ st.Delta >= 0
          /\ 2 * Abs(n * st.Avg - 125 * Sum(a)) <= n
          /\ st.Min <= st.Avg /\ st.Avg <= st.Max
          /\ a = <<-720, -736>>
             => st = [Min |-> -92000, Max |-> -90000, Avg |-> -91000, Delta |-> 2000]

C18_Witness ==
    /\ pc = <<"get_Array_stats", "return">>
    /\ gr.in_arry = <<-720, -736>>
    /\ gr.out[1].Min = -92000
    /\ gr.out[1].Max = -90000
    /\ gr.out[1].Avg = -91000
    /\ gr.out[1].Delta = 2000

\* C19: a call of get_VSA_sweep_noise_mkr on a connected driver sends its
\* commands in this order and no others: continuous sweep off, then one
\* sweep trigger with the wait for completion, then the read of the noise
\* marker; when it returns, all three have been sent and the result is the
\* pair of the marker, a float, and the elapsed time, a number.
C19_SweepThenReadMarker ==
    /\ pc[1] = "get_VSA_sweep_noise_mkr"
       => /\ Len(gr.sent) <= 3
          /\ Len(gr.sent) >= 1 => gr.sent[1] = "INIT:CONT OFF"
          /\ Len(gr.sent) >= 2 => gr.sent[2] = "INIT:IMM;*OPC?"
          /\ Len(gr.sent) >= 3 => gr.sent[3] = ":CALC:MARK:FUNC:NOIS:RES?"
    /\ pc = <<"get_VSA_sweep_noise_mkr", "return">>
       => /\ Len(gr.sent) = 3
          /\ ~gr.out[1].raised
          /\ gr.out[1].value # None
          /\ Len(gr.out[1].value[1]) = 2
          /\ gr.out[1].value[1][1] = Some(Float(gr.res.toks[1].val))
          /\ gr.out[1].value[1][2] = gr.stop_time - gr.start_time
          /\ gr.out[1].value[1][2] \in Nat

C19_Witness ==
    /\ pc = <<"get_VSA_sweep_noise_mkr", "return">>
    /\ gr.sent = <<"INIT:CONT OFF", "INIT:IMM;*OPC?", ":CALC:MARK:FUNC:NOIS:RES?">>
    /\ gr.out[1].value = Some(<<Some(Float(-150)), 2>>)

\* C20: a step that processes a test set and raises (in a driver call of the
\* handler, in the parsing of a read-back, or in the constructor of a
\* SpurSearch or STN driver) leaves the orchestrator in the loop of the same
\* family with the counter advanced: in the NR5G and LTE loops it goes on
\* with the next power level of the frequency when there is one, else with
\* the next frequency or, the list exhausted, the finally clause; in the
\* SpurSearch and STN loops it goes to the finally clause of the frequency,
\* from which the loop takes the next frequency.
C20_ExceptionDoesNotStopTheRun ==
    [][(/\ attempted' # attempted
        /\ lastRun'.raised \/ pc[2] = "init")
       => /\ test_set' = test_set + 1
          /\ pc'[1] = pc[1]
          /\ IF pc[1] \in Families
             THEN IF Tail(todo) # <<>>
                  THEN pc' = pc /\ todo' = Tail(todo) /\ instr' # None
                  ELSE \/ pc'[2] = "run" /\ todo' # <<>> /\ instr' # None
                       \/ pc'[2] = "finally"
             ELSE pc'[2] = "finally"]_vars

C20_Witness ==
    /\ pc = <<"NR5G", "run">>
    /\ lastRun.type = "NR5G"
    /\ lastRun.test_set = 2
    /\ lastRun.freq = 100
    /\ lastRun.pwr = 0
    /\ ~lastRun.raised
    /\ 1 \in attempted
    /\ \A i \in 1..Len(results) : results[i].test_set # 1
    /\ todo # <<>>
    /\ Head(todo)[1] = 104

\* C21: in every NR5G/LTE test set in which the reconfiguration was performed
\* (VSG_Config and VSA_Config both returned), VSx_freq is called after
\* VSA_Config in that same test set.
C21_RetuneFollowsReconfigure ==
    (/\ lastRun.type \in Families
     /\ Before("VSG_Config", "VSA_Config")
     /\ "VSA_Config" \in DOMAIN lastRun.timings) =>
        Before("VSA_Config", "VSx_freq")

\* C22: a transport failure (read timeout) inside VSA_get_EVM or VSA_get_ACLR
\* is surfaced to the test set that called it as a failure: the try block of
\* the test set raises, and no value of the operation enters a record.
C22_TimeoutSurfacesAsFailure ==
    lastRun.type \in Families =>
        /\ (lastRun.evm_in # None /\ lastRun.evm_in[1].fail) =>
               lastRun.raised /\ lastRun.appended = <<>>
        /\ (lastRun.aclr_in # None /\ lastRun.aclr_in[1].fail) =>
               lastRun.raised /\ lastRun.appended = <<>>

(***************************************************************************)
(* Successive iSocket.query calls on one session: the analyzer socket of   *)
(* an NR5G driver, whose read timeout the constructor has set.  The socket *)
(* is a byte stream: the instrument answers the commands it has received   *)
(* in their order, each answer when it is ready, and recv(1024) hands over *)
(* what has arrived by then, whichever command it answers.  A caller that  *)
(* catches the exception of a query (VSA_get_EVM, VSA_get_ACLR) goes on    *)
(* with the next query on the same socket.  An answer is written           *)
(* [to |-> number of the query, cmd |-> its command].                      *)
(***************************************************************************)
MaxQueries == 3

EvmQueries == {"INIT:IMM;*OPC?", ":SENS:ADJ:EVM;*OPC?", ":FETC:CC1:SUMM:EVM:ALL:AVER?"}

InitSession ==
    /\ pc = <<"query", "call">>
    /\ gr = [state |-> "idle", n |-> 0, cmd |-> "",
             timeout |-> session_timeout("NR5G", "VSA", "driver"),
             pending |-> <<>>, buffer |-> <<>>, out |-> <<>>]
    /\ Idle

\* self.sock.send(f"{cmd}\n".encode()) of the next query on the session
sock_send ==
    /\ pc \in {<<"query", "call">>, <<"query", "return">>, <<"query", "raise">>}
    /\ gr.n < MaxQueries
    /\ \E cmd \in EvmQueries :
         gr' = [gr EXCEPT !.state = "sent", !.n = @ + 1, !.cmd = cmd, !.out = <<>>,
                          !.pending = Append(@, [to |-> gr.n + 1, cmd |-> cmd])]
    /\ pc' = <<"query", "recv">>
    /\ UNCHANGED rest

\* the instrument completes the oldest command it holds and sends its answer
instrument_reply ==
    /\ gr.pending # <<>>
    /\ gr' = [gr EXCEPT !.pending = Tail(@), !.buffer = Append(@, Head(gr.pending))]
    /\ UNCHANGED <<pc, rest>>

\* response = self.sock.recv(1024).decode().strip(); return response
sock_recv ==
    /\ pc = <<"query", "recv">>
    /\ gr.buffer # <<>>
    /\ gr' = [gr EXCEPT !.state = "returned", !.out = gr.buffer, !.buffer = <<>>]
    /\ pc' = <<"query", "return">>
    /\ UNCHANGED rest

\* recv raises socket.timeout: nothing has arrived within the read timeout;
\* query logs and re-raises (lines 73-75)
sock_recv_timeout ==
    /\ pc = <<"query", "recv">>
    /\ gr.buffer = <<>>
    /\ gr.timeout # None
    /\ gr' = [gr EXCEPT !.state = "raised"]
    /\ pc' = <<"query", "raise">>
    /\ UNCHANGED rest

NextSession == sock_send \/ instrument_reply \/ sock_recv \/ sock_recv_timeout

SpecSession == InitSession /\ [][NextSession]_vars

\* C23: the string that query(cmd) returns is the instrument's answer to that
\* same cmd, also after an earlier query on the session has timed out.
C23_ResponseAnswersItsQuery ==
    (pc = <<"query", "return">>) =>
        gr.out = <<[to |-> gr.n, cmd |-> gr.cmd]>>

(***************************************************************************)
(* The whole run under fair scheduling: the interpreter executes main.py   *)
(* statement after statement, so a step of the run that can be taken is    *)
(* taken, up to the end of the last loop.                                  *)
(***************************************************************************)
SpecRun == Spec /\ WF_vars(Next)

\* C24: once the construction of a family's driver has failed, no test set of
\* that family is run any more in the run: for NR5G and LTE after the
\* constructor of a test definition raised, for SpurSearch and STN after the
\* constructor for a frequency raised (the finally clause finds no driver).
C24_FailedConstructionEndsFamily ==
    /\ \A fam \in {"NR5G", "LTE"} :
           []((lastInit.family = fam /\ lastInit.raised)
                  => [](pc # <<fam, "run">>))
    /\ []((pc = <<"SpurSearch", "finally">> /\ spur_instr = None)
              => [](pc # <<"SpurSearch", "run">>))
    /\ []((pc = <<"STN", "finally">> /\ stn_instr = None)
              => [](pc # <<"STN", "run">>))

\* C25: a frequency generated from a range of a spur_search test definition
\* is processed as a test set like a scalar or list frequency: the driver
\* calls start with VSG_config, and a SpurSearch record of the test set is
\* appended to the results.
C25_RangeFrequencyYieldsRecord ==
    (/\ lastRun.type = "SpurSearch"
     /\ test # None
     /\ test[1].kind = "range") =>
        /\ InOps("VSG_config")
        /\ Len(lastRun.appended) = 1
        /\ lastRun.appended[1].test_set = lastRun.test_set
        /\ lastRun.appended[1].type = "SpurSearch"

\* the number of assignments to key k in the timing map of the last test set
Writes(k) == Cardinality({i \in 1..Len(lastRun.tlog) : lastRun.tlog[i] = k})

\* C26 as stated: between the creation of a test set's timing map and the
\* appending of its record no key is assigned twice.
C26_NoKeyAssignedTwice ==
    lastRun.type \in Families \cup {"SpurSearch"} =>
        \A k \in DOMAIN lastRun.timings : Writes(k) = 1

\* C26, amended: every key of a test set's timing map but "VSA_get_ACLR" is
\* assigned exactly once; "VSA_get_ACLR" is assigned once, with 0.0, when the
\* ACLR measurement is not called, and twice when it is called (the default
\* 0.0, then the elapsed time of the call).
C26_KeysWrittenOnceButAclr ==
    lastRun.type \in Families \cup {"SpurSearch"} =>
        /\ \A k \in DOMAIN lastRun.timings \ {"VSA_get_ACLR"} : Writes(k) = 1
        /\ "VSA_get_ACLR" \in DOMAIN lastRun.timings =>
               IF InOps("VSA_get_ACLR")
               THEN Writes("VSA_get_ACLR") = 2
               ELSE /\ Writes("VSA_get_ACLR") = 1
                    /\ lastRun.timings["VSA_get_ACLR"] = SkippedTime

\* a test set that measured ACLR and appended its record: the key was
\* assigned twice and holds the elapsed time of the call
C26_Witness ==
    /\ lastRun.type \in Families
    /\ lastRun.appended # <<>>
    /\ InOps("VSA_get_ACLR")
    /\ Writes("VSA_get_ACLR") = 2
    /\ Writes("VSA_get_EVM") = 1
    /\ lastRun.appended[1].timings["VSA_get_ACLR"] # SkippedTime

\* the key under which the orchestrator enters the elapsed time of a driver
\* call: the call's name, except VSA_sweep (main.py line 96 / 185)
TimingKey(op) == IF op = "VSA_sweep" THEN "VSA_sweep_evm" ELSE op

\* C27: every driver operation called in a test set that completed has its
\* elapsed time in the timing map of the test set's record.
C27_EveryDriverCallIsTimed ==
    (/\ lastRun.type \in Families \cup {"SpurSearch"}
     /\ ~lastRun.raised
     /\ lastRun.appended # <<>>) =>
        \A i \in 1..Len(lastRun.ops) :
            TimingKey(lastRun.ops[i]) \in DOMAIN lastRun.appended[1].timings

(***************************************************************************)
(* std_insr_driver.VSA_get_EVM on a connected driver, one step per command *)
(* sent to an instrument.  gr holds the command that fails (if any), the   *)
(* generator's answer to the peak-envelope-power query, the analyzer's     *)
(* answer to the EVM fetch, the commands sent so far with the instrument   *)
(* they went to, and the value returned.  Powers and levels are in dB.     *)
(***************************************************************************)
RefLevelMargin == 2

\* the order of the commands with the EVM fetched right after the
\* peak-envelope power is read
evm_next_fetch_early(step) ==
    CASE step = "call" -> "conf"
      [] step = "conf" -> "presweep"
      [] step = "presweep" -> "pep"
      [] step = "pep" -> "fetch"
      [] OTHER -> "return"

\* the statement of VSA_get_EVM that follows a statement (lines 243-256)
evm_next(step) ==
    CASE step = "call" -> "conf"
      [] step = "conf" -> "presweep"
      [] step = "presweep" -> "pep"
      [] step = "pep" -> "rlev"
      [] step = "rlev" -> "adjust"
      [] step = "adjust" -> "sweep"
      [] step = "sweep" -> "fetch"
      [] OTHER -> "return"

\* the command each statement sends; pep is None or Some(parsed PEP)
evm_command(step, pep) ==
    CASE step = "conf" ->
             [dev |-> "VSA", cmd |-> ":CONF:NR5G:MEAS EVM;*OPC", arg |-> None]
      [] step = "presweep" ->
             [dev |-> "VSA", cmd |-> "INIT:IMM;*OPC?", arg |-> None]
      [] step = "pep" ->
             [dev |-> "VSG", cmd |-> ":SOUR1:POW:PEP?", arg |-> None]
      [] step = "rlev" ->
             [dev |-> "VSA", cmd |-> ":DISP:WIND:TRAC:Y:SCAL:RLEV",
              arg |-> IF pep = None THEN None ELSE Some(pep[1] - RefLevelMargin)]
      [] step = "adjust" ->
             [dev |-> "VSA", cmd |-> ":SENS:ADJ:EVM;*OPC?", arg |-> None]
      [] step = "sweep" ->
             [dev |-> "VSA", cmd |-> "INIT:IMM;*OPC?", arg |-> None]
      [] OTHER ->
             [dev |-> "VSA", cmd |-> ":FETC:CC1:SUMM:EVM:ALL:AVER?", arg |-> None]

EvmFaults == {"none", "conf", "presweep", "pep", "rlev", "adjust", "sweep"}
PepAnswers == {Num(-8), Num(3), BadTok}

InitEvm ==
    /\ pc = <<"VSA_get_EVM", "call">>
    /\ gr \in {[state |-> "called", fault |-> f, pep_str |-> p, evm_str |-> e,
                pep |-> None, sent |-> <<>>, out |-> <<>>] :
                  f \in EvmFaults, p \in PepAnswers, e \in EvmReadbacks}
    /\ Idle

\* one statement of the try block of lines 241-263; an exception of the
\* statement is caught at line 264 and the call returns NaN
evm_send ==
    /\ pc[1] = "VSA_get_EVM"
    /\ pc[2] # "return"
    /\ \E step \in {evm_next(pc[2])} :
       \E sent \in {Append(gr.sent, evm_command(step, gr.pep))} :
         IF gr.fault = step \/ (step = "pep" /\ gr.pep_str.kind # "num")
         THEN /\ gr' = [gr EXCEPT !.state = "returned", !.sent = sent,
                                  !.out = Some(NaN)]
              /\ pc' = <<"VSA_get_EVM", "return">>
         ELSE IF step = "fetch"
              THEN /\ gr' = [gr EXCEPT !.state = "returned", !.sent = sent,
                                       !.out = Some(VSA_get_EVM(gr.evm_str))]
                   /\ pc' = <<"VSA_get_EVM", "return">>
              ELSE /\ gr' = [gr EXCEPT !.sent = sent,
                                       !.pep = IF step = "pep"
                                               THEN Some(gr.pep_str.val) ELSE @]
                   /\ pc' = <<"VSA_get_EVM", step>>
    /\ UNCHANGED rest

NextEvm == evm_send

SpecEvm == InitEvm /\ [][NextEvm]_vars

\* the positions in the commands sent so far of a command to an instrument
Sent(dev, cmd) ==
    {i \in 1..Len(gr.sent) : gr.sent[i].dev = dev /\ gr.sent[i].cmd = cmd}

\* C28: in VSA_get_EVM the generator's peak-envelope power is read, then the
\* analyzer's reference level is written with that value minus 2 dB, then
\* the EVM optimisation is run, then a sweep is triggered and completed, and
\* only then is the averaged EVM fetched: the fetch is never sent without
\* the four before it in this order, the reference level is never written
\* without the power read before it, and a call that returns a number has
\* sent the fetch and returns the fetched value.
C28_EvmCommandOrder ==
    pc[1] = "VSA_get_EVM" =>
        /\ \A f \in Sent("VSA", ":FETC:CC1:SUMM:EVM:ALL:AVER?") :
             \E p \in Sent("VSG", ":SOUR1:POW:PEP?"),
                r \in Sent("VSA", ":DISP:WIND:TRAC:Y:SCAL:RLEV"),
                a \in Sent("VSA", ":SENS:ADJ:EVM;*OPC?"),
                s \in Sent("VSA", "INIT:IMM;*OPC?") :
                 p < r /\ r < a /\ a < s /\ s < f
        /\ \A r \in Sent("VSA", ":DISP:WIND:TRAC:Y:SCAL:RLEV") :
             /\ \E p \in Sent("VSG", ":SOUR1:POW:PEP?") : p < r
             /\ gr.pep_str.kind = "num"
             /\ gr.sent[r].arg = Some(gr.pep_str.val - 2)
        /\ Cardinality(Sent("VSA", ":FETC:CC1:SUMM:EVM:ALL:AVER?")) <= 1
        /\ (pc[2] = "return" /\ gr.out # Some(NaN)) =>
               /\ Sent("VSA", ":FETC:CC1:SUMM:EVM:ALL:AVER?") = {Len(gr.sent)}
               /\ gr.out = Some(Float(gr.evm_str.toks[1].val))

\* a call that read a peak-envelope power of -8 dB, wrote the reference
\* level -10 dB, optimised, swept and returned the fetched EVM
C28_Witness ==
    /\ pc = <<"VSA_get_EVM", "return">>
    /\ gr.out = Some(Float(-40))
    /\ Len(gr.sent) = 7
    /\ gr.sent[3].cmd = ":SOUR1:POW:PEP?"
    /\ gr.sent[4] = [dev |-> "VSA", cmd |-> ":DISP:WIND:TRAC:Y:SCAL:RLEV",
                     arg |-> Some(-10)]
    /\ gr.sent[7].cmd = ":FETC:CC1:SUMM:EVM:ALL:AVER?"

(***************************************************************************)
(* SpurSearch.VSA_config on a connected driver, one step per command that  *)
(* bears on the frequencies swept and searched (the trace, detector,       *)
(* bandwidth and input settings of lines 71-85 are one step).  Frequencies *)
(* are in MHz, fundamentals even so that half of one is a whole number.    *)
(* gr holds the fundamental, the command that fails (if any), the commands *)
(* sent, and the analyzer's sweep range and marker search limits: None     *)
(* when the preset value of *RST stands.                                   *)
(***************************************************************************)
RangeGuard == 1

\* the statement of VSA_config that follows a statement (lines 56-92)
vsa_config_next(step) ==
    CASE step = "call" -> "rst"
      [] step = "rst" -> "cont_off"
      [] step = "cont_off" -> "star"
      [] step = "star" -> "stop"
      [] step = "stop" -> "settings"
      [] step = "settings" -> "fpe_on"
      [] step = "fpe_on" -> "slim_left"
      [] step = "slim_left" -> "slim_right"
      [] step = "slim_right" -> "thr"
      [] OTHER -> "return"

\* lines 60-63: the two ranges computed from the fundamental
start_freq1(fundamental) == fundamental \div 2
stop_freq1(fundamental) == fundamental - RangeGuard
start_freq2(fundamental) == fundamental + RangeGuard
stop_freq2(fundamental) == 2 * fundamental

\* the command each statement sends
vsa_config_command(step, fundamental) ==
    CASE step = "rst" -> [cmd |-> "*RST;*OPC?", arg |-> None]
      [] step = "cont_off" -> [cmd |-> "INIT:CONT OFF", arg |-> None]
      [] step = "star" ->
             [cmd |-> "SENS:FREQ:STAR", arg |-> Some(start_freq1(fundamental))]
      [] step = "stop" ->
             [cmd |-> "SENS:FREQ:STOP", arg |-> Some(stop_freq1(fundamental))]
      [] step = "settings" -> [cmd |-> "SENS:SWE:TYPE FFT", arg |-> None]
      [] step = "fpe_on" -> [cmd |-> "CALC1:MARK1:FUNC:FPE:STAT ON", arg |-> None]
      [] step = "slim_left" ->
             [cmd |-> "CALC1:MARK1:X:SLIM:LEFT",
              arg |-> Some(start_freq1(fundamental))]
      [] step = "slim_right" ->
             [cmd |-> "CALC1:MARK1:X:SLIM:RIGH",
              arg |-> Some(stop_freq2(fundamental))]
      [] OTHER -> [cmd |-> "CALC1:THR", arg |-> None]

\* what the analyzer does with a command
analyzer(an, c) ==
    CASE c.cmd = "*RST;*OPC?" ->
             [start |-> None, stop |-> None, slim_left |-> None, slim_right |-> None]
      [] c.cmd = "SENS:FREQ:STAR" -> [an EXCEPT !.start = c.arg]
      [] c.cmd = "SENS:FREQ:STOP" -> [an EXCEPT !.stop = c.arg]
      [] c.cmd = "CALC1:MARK1:X:SLIM:LEFT" -> [an EXCEPT !.slim_left = c.arg]
      [] c.cmd = "CALC1:MARK1:X:SLIM:RIGH" -> [an EXCEPT !.slim_right = c.arg]
      [] OTHER -> an

ConfigFundamentals == {2000, 2440, 3500}
VsaConfigFaults == {"none", "rst", "cont_off", "star", "stop", "settings", "fpe_on",
                    "slim_left", "slim_right", "thr"}

InitSpurConfig ==
    /\ pc = <<"VSA_config", "call">>
    /\ gr \in {[state |-> "called", fundamental |-> f, fault |-> x, sent |-> <<>>,
                an |-> [start |-> None, stop |-> None, slim_left |-> None,
                        slim_right |-> None]] :
                  f \in ConfigFundamentals, x \in VsaConfigFaults}
    /\ Idle

\* one statement of the try block of lines 50-96; an exception is logged and
\* re-raised (lines 98-100)
vsa_config_send ==
    /\ pc[1] = "VSA_config"
    /\ pc[2] \notin {"return", "raise"}
    /\ \E step \in {vsa_config_next(pc[2])} :
         IF gr.fault = step
         THEN /\ gr' = [gr EXCEPT !.state = "raised"]
              /\ pc' = <<"VSA_config", "raise">>
         ELSE /\ gr' = [gr EXCEPT
                          !.state = IF vsa_config_next(step) = "return"
                                    THEN "returned" ELSE @,
                          !.sent = Append(@, vsa_config_command(step, gr.fundamental)),
                          !.an = analyzer(@, vsa_config_command(step, gr.fundamental))]
              /\ pc' = <<"VSA_config", IF vsa_config_next(step) = "return"
                                       THEN "return" ELSE step>>
    /\ UNCHANGED rest

NextSpurConfig == vsa_config_send

SpecSpurConfig == InitSpurConfig /\ [][NextSpurConfig]_vars

\* a sweep range [lo, hi] has been sent: start and stop, in this order
SweepRangeSent(lo, hi) ==
    \E i, j \in 1..Len(gr.sent) :
        /\ i < j
        /\ gr.sent[i] = [cmd |-> "SENS:FREQ:STAR", arg |-> Some(lo)]
        /\ gr.sent[j] = [cmd |-> "SENS:FREQ:STOP", arg |-> Some(hi)]

\* a frequency lies in the range the analyzer sweeps
Swept(x) ==
    /\ gr.an.start # None /\ gr.an.stop # None
    /\ gr.an.start[1] <= x /\ x <= gr.an.stop[1]

\* C29: when VSA_config has returned, the two ranges [fundamental/2,
\* fundamental - 1 MHz] and [fundamental + 1 MHz, 2 x fundamental] have both
\* been sent to the analyzer as sweep ranges, and the frequencies of the
\* upper range lie in what the analyzer sweeps.
C29_BothRangesSwept ==
    (pc = <<"VSA_config", "return">>) =>
        LET f == gr.fundamental
        IN /\ SweepRangeSent(f \div 2, f - 1)
           /\ SweepRangeSent(f + 1, 2 * f)
           /\ Swept(f + 1) /\ Swept(2 * f)

(***************************************************************************)
(* The waveform parameters of an NR5G driver: lines 37-45 of __init__, and *)
(* what run_nr5g_measurement reads of them for the config summary and the  *)
(* record.  A waveform file is None (none given) or Some(name), the name   *)
(* in the text form of _extract_waveform_params.  A test set of a driver   *)
(* without a waveform file does not get as far as the summary: its         *)
(* VSG_Config raises "No waveform file provided".                          *)
(***************************************************************************)
DefaultRB == 51
DefaultRBO == 0
DefaultBW == 20
DefaultSCS == 30
FallbackRB == 24
FallbackBW == 10

\* dict.get(key, default) on the dict _extract_waveform_params returned:
\* {} (None here) or the dict with all its keys
dict_get(d, key, default) == IF d = None THEN default ELSE d[1][key]

\* getattr(obj, name, default)
getattr(obj, name, default) == IF name \in DOMAIN obj THEN obj[name] ELSE default

\* nr5g_fr1.py lines 38-45
driver_params(waveform_file) ==
    LET waveform_params_ == IF waveform_file # None
                            THEN extract_waveform_params(waveform_file[1])
                            ELSE None
    IN [rb |-> dict_get(waveform_params_, "resource_blocks", DefaultRB),
        rbo |-> dict_get(waveform_params_, "resource_block_offset", DefaultRBO),
        bw |-> dict_get(waveform_params_, "bandwidth_mhz", DefaultBW),
        mod |-> dict_get(waveform_params_, "modulation", "QAM256"),
        scs |-> dict_get(waveform_params_, "subcarrier_spacing_khz", DefaultSCS),
        dupl |-> dict_get(waveform_params_, "duplexing", "FDD"),
        ldir |-> dict_get(waveform_params_, "link_direction", "UP")]

\* main.py lines 85-92: the fields of the config summary
config_summary(drv) ==
    [bw |-> getattr(drv, "bw", FallbackBW),
     dupl |-> getattr(drv, "dupl", "FDD"),
     ldir |-> getattr(drv, "ldir", "UL"),
     scs |-> getattr(drv, "scs", DefaultSCS),
     rb |-> getattr(drv, "rb", FallbackRB),
     rbo |-> getattr(drv, "rbo", DefaultRBO),
     mod |-> getattr(drv, "mod", "256QAM")]

InitParams ==
    /\ pc = <<"__init__", "call">>
    /\ gr \in {[state |-> "called", waveform_file |-> w, drv |-> None,
                config |-> None] :
                  w \in {None} \cup {Some(waveform_name(f, p)) :
                                        f \in EncodedNames, p \in Paddings}}
    /\ Idle

\* std_insr_driver.__init__, lines 37-45: validation, then the parameters
init_params ==
    /\ pc = <<"__init__", "call">>
    /\ IF gr.waveform_file # None /\ ~waveform_match(gr.waveform_file[1])
       THEN /\ gr' = [gr EXCEPT !.state = "raised"]
            /\ pc' = <<"__init__", "raise">>
       ELSE /\ gr' = [gr EXCEPT !.state = "returned",
                                !.drv = Some(driver_params(gr.waveform_file))]
            /\ pc' = <<"__init__", "return">>
    /\ UNCHANGED rest

\* run_nr5g_measurement, lines 85-95, in a test set of the driver
summarize ==
    /\ pc = <<"__init__", "return">>
    /\ gr.waveform_file # None
    /\ gr' = [gr EXCEPT !.config = Some(config_summary(gr.drv[1]))]
    /\ pc' = <<"run_nr5g_measurement", "config">>
    /\ UNCHANGED rest

NextParams == init_params \/ summarize

SpecParams == InitParams /\ [][NextParams]_vars

\* C30: an NR5G driver constructed without a waveform file holds the
\* parameters 24 resource blocks, 256QAM modulation and 30 kHz subcarrier
\* spacing.
C30_DefaultsWithoutWaveform ==
    (gr.state = "returned" /\ gr.waveform_file = None) =>
        /\ gr.drv[1].rb = 24
        /\ gr.drv[1].mod = "256QAM"
        /\ gr.drv[1].scs = 30

(***************************************************************************)
(* The NR5G and LTE loops with the instruments' settings followed in gr:   *)
(* two waveforms, two frequencies, one or two power levels, and a driver   *)
(* call of the test set that fails.                                        *)
(***************************************************************************)
NR5GBenchTest == TakeTest("NR5G", StdTests("NR5G", {NrWvA, NrWvB}, {NrDflA}, {TRUE},
                                           {100, 104}, PowerLists))
LTEBenchTest == TakeTest("LTE", StdTests("LTE", {LteWvA, LteWvB}, {LteDflA}, {TRUE},
                                         {100, 104}, PowerLists))
NR5GBenchRun == RunSet("NR5G", StdFaults, GoodEvm, GoodAclr, TRUE)
LTEBenchRun == RunSet("LTE", StdFaults, GoodEvm, GoodAclr, TRUE)

InitBench ==
    /\ pc = <<"NR5G", "loop">>
    /\ gr = NoBench
    /\ Idle

NextBench ==
    \/ NR5GBenchTest \/ NR5GConnect \/ NR5GBenchRun \/ NR5GClose \/ NR5GEnd
    \/ LTEBenchTest \/ LTEConnect \/ LTEBenchRun \/ LTEClose \/ LTEEnd

SpecBench == InitBench /\ [][NextBench]_vars

\* C31: in a test set that reaches the EVM measurement, and in one that
\* reaches the ACLR measurement, the centre frequency last commanded to the
\* analyzer and the CW frequency last commanded to the generator are the
\* test set's frequency.
C31_MeasuredAtRequestedFrequency ==
    lastRun.type \in Families =>
        /\ gr.evm # None =>
               /\ gr.evm[1].vsa_cent = Some(lastRun.freq)
               /\ gr.evm[1].vsg_cw = Some(lastRun.freq)
        /\ gr.aclr # None =>
               /\ gr.aclr[1].vsa_cent = Some(lastRun.freq)
               /\ gr.aclr[1].vsg_cw = Some(lastRun.freq)

\* C35: in a test set that reaches the EVM measurement, the output power
\* last commanded to the generator is the test set's power.
C35_MeasuredAtRequestedPower ==
    (lastRun.type \in Families /\ gr.evm # None) =>
        gr.evm[1].vsg_pow = Some(lastRun.pwr)

\* An EVM measurement of a test set that neither reconfigured nor retuned,
\* at a power other than the one the driver was constructed with.
C35_Witness ==
    /\ lastRun.type \in Families
    /\ gr.evm # None
    /\ ~InOps("VSG_Config")
    /\ ~InOps("VSx_freq")
    /\ lastRun.pwr = 0
    /\ gr.evm[1].vsg_pow = Some(0)

\* C32: the first test set run on a newly constructed driver calls VSG_Config
\* and VSA_Config before it measures the EVM: no EVM measurement is made on
\* sessions that have not been configured since they were opened, also when
\* the files equal those of the last test set before the close.
C32_FirstTestSetReconfigures ==
    [][(/\ lastRun = NoRun
        /\ lastRun'.type \in Families
        /\ \E i \in DOMAIN lastRun'.ops : lastRun'.ops[i] = "VSA_get_EVM")
       => /\ \E i \in DOMAIN lastRun'.ops : lastRun'.ops[i] = "VSG_Config"
          /\ \E i \in DOMAIN lastRun'.ops : lastRun'.ops[i] = "VSA_Config"]_vars

\* C33: when the processing of a family has ended, no socket opened for it is
\* still open: after the NR5G loop the sessions in the NR5G registry slots
\* are closed, after the LTE loop those of the LTE slots, and at the end of
\* the run no socket at all is open.
C33_FamilyEndLeavesNoOpenSocket ==
    /\ \A fam \in Families :
           (pc[1] # fam /\ (fam = "LTE" => pc[1] # "NR5G")) =>
               \A s \in {vsa_instance[fam], vsg_instance[fam]} :
                   s # None => socks[s[1]].state # "open"
    /\ pc[1] = "done" => OpenSocks("VSA") \cup OpenSocks("VSG") = {}

\* C34: a test set that called VSG_Config leaves previous_config and
\* previous_freq as they were unless VSG_Config and VSA_Config have both
\* returned; when both have returned the tracker holds the test set's
\* configuration and frequency.
C34_TrackerUpdatedAfterBothConfigs ==
    [][(pc[2] = "run" /\ lastRun'.type \in Families /\ lastRun' # lastRun) =>
          LET ops == lastRun'.ops
              n == Len(ops)
              tried == \E i \in 1..n : ops[i] = "VSG_Config"
              returned == /\ \E i \in 1..n : ops[i] = "VSA_Config"
                          /\ ~(lastRun'.raised /\ ops[n] = "VSA_Config")
          IN /\ (tried /\ ~returned) =>
                    /\ previous_config' = previous_config
                    /\ previous_freq' = previous_freq
             /\ (tried /\ returned) =>
                    /\ previous_config' = lastRun'.cfg
                    /\ previous_freq' = Some(lastRun'.freq)]_vars

\* a test set whose VSA_Config raised while the tracker held another
\* configuration: the tracker still holds that one, so a test set with these
\* files reconfigures again
C34_Witness ==
    /\ lastRun.type \in Families
    /\ lastRun.raised
    /\ lastRun.ops = <<"VSG_Config", "VSA_Config">>
    /\ previous_config # None
    /\ previous_config = lastRun.entry_config
    /\ previous_config # lastRun.cfg
    /\ should_reconfigure(previous_config, lastRun.cfg[1])

\* C36: a driver construction whose file names fail validation raises,
\* opens no connection and changes no registry slot: the sockets and the
\* VSA and VSG slots are the same after it as before it.
C36_FailedValidationOpensNothing ==
    [][\A fam \in Families :
          (/\ pc = <<fam, "init">>
           /\ ~validate_file_names(fam, test[1].waveform_file, test[1].setup_file))
          => /\ pc' = <<fam, "finally">>
             /\ socks' = socks
             /\ vsa_instance' = vsa_instance
             /\ vsg_instance' = vsg_instance
             /\ instr' = instr]_vars

\* a construction that failed validation while the VSA slot of its class
\* held a session left by an earlier construction
C36_Witness ==
    /\ pc[2] = "finally"
    /\ lastInit.family \in Families
    /\ lastInit.raised
    /\ ~validate_file_names(lastInit.family, test[1].waveform_file, test[1].setup_file)
    /\ lastInit.vsa_before # None
    /\ vsa_instance[lastInit.family] = lastInit.vsa_before
    /\ lastInit.opened = {}

\* what C37 says of a record rec appended for the iterations sw
StnRecordFacts(rec, sw) ==
    LET ok == Succeeded(sw) IN
    /\ rec.stats # None <=> Cardinality(ok) >= MinStatSamples
    /\ rec.error = Some("No successful measurements") <=> ok = {}
    /\ rec.timings.VSA_Config # None
    /\ rec.total_test_time =
           rec.timings.VSA_Config[1]
               + Sum([i \in 1..Len(sw) |->
                         IF sw[i] # None THEN rec.markers[i].meas_time ELSE 0])

\* C37: in every STN result record stats is non-null exactly when two or
\* more iterations produced a valid marker, the error is 'No successful
\* measurements' exactly when no iteration did, and total_test_time is the
\* VSA_Config time plus the times of the successful iterations.
C37_StnRecordFields ==
    lastRun.type = "STN" =>
        /\ Len(lastRun.appended) = 1
        /\ StnRecordFacts(lastRun.appended[1], lastRun.sweeps)

\* C37, for the records of test sets whose VSA_Config returned; the record
\* of a test set whose VSA_Config raised has no markers, no stats, a total
\* time of 0 and the text of the exception as its error.
C37_StnRecordFieldsAfterConfig ==
    lastRun.type = "STN" =>
        /\ Len(lastRun.appended) = 1
        /\ IF lastRun.raised
           THEN LET rec == lastRun.appended[1]
                IN /\ rec.markers = <<>>
                   /\ rec.stats = None
                   /\ rec.total_test_time = 0
                   /\ rec.error # None
                   /\ rec.error # Some("No successful measurements")
           ELSE StnRecordFacts(lastRun.appended[1], lastRun.sweeps)

\* three iterations of which only the second produced a marker: no stats, no
\* error, and a total of the VSA_Config time and that one measurement
C37_Witness ==
    /\ lastRun.type = "STN"
    /\ ~lastRun.raised
    /\ lastRun.sweeps = <<None, Some(-150), None>>
    /\ lastRun.appended[1].stats = None
    /\ lastRun.appended[1].error = None
    /\ lastRun.appended[1].total_test_time = 2

\* C38: whenever the STN loop is about to obtain its driver there is no STN
\* driver object, so the driver is constructed anew and STN_set_frequency is
\* never called; and between two STN test sets no socket of the driver of
\* the earlier one is open.
C38_StnDriverNeverReused ==
    /\ pc = <<"STN", "init">> => stn_instr = None
    /\ (pc[1] = "STN" /\ pc[2] \in {"init", "loop"}) =>
           \A i \in DOMAIN socks : socks[i].state # "open"

\* the second frequency of a frequency list, after a first test set that
\* ran on its own driver: again no driver object
C38_Witness ==
    /\ pc = <<"STN", "init">>
    /\ ntests = 1
    /\ test[1].kind = "list"
    /\ Len(results) = 1
    /\ results[1].type = "STN"
    /\ closed.family = "STN"
    /\ stn_instr = None

\* C39: the test_set numbers of the records are strictly increasing in
\* append order (hence pairwise distinct), every record carries the number
\* of an attempted test set, and the counter, which starts at 1, has advanced
\* by exactly one per attempted test set: the attempted test sets are
\* numbered 1 .. test_set - 1.
C39_CounterAdvancesOncePerTestSet ==
    /\ \A i, j \in 1..Len(results) :
           i < j => results[i].test_set < results[j].test_set
    /\ \A i \in 1..Len(results) : results[i].test_set \in attempted
    /\ attempted = 1..(test_set - 1)

\* a run with a test set that succeeded, one that failed inside
\* run_*_measurement and left an error record, and one whose driver
\* construction failed and left no record
C39_Witness ==
    /\ attempted = 1..3
    /\ test_set = 4
    /\ Len(results) = 2
    /\ \E i, j \in 1..2 : ~results[i].error /\ results[j].error
    /\ \E n \in attempted : \A i \in 1..Len(results) : results[i].test_set # n

====
